---- MODULE Spec2Model ----
(***************************************************************************)
(* Data Quality & Temporal Normalization Engine of pipeline_sensorial_data *)
(* (src/pipeline, src/pipeline_v2).                                        *)
(*                                                                         *)
(* Every transform of the engine is a batch function over a table.  Each   *)
(* component gets a specification of its own: Init draws the input table   *)
(* from a bounded family, one action per entry point applies the whole     *)
(* function and stores what it returns.                                    *)
(*                                                                         *)
(* Numbers.  `valor` is a float in the program.  The model keeps values as *)
(* integer multiples of 2^-20 (Scale units per 1.0), so the arithmetic the *)
(* program performs on the modelled inputs (differences, quartile          *)
(* interpolation, 1.5x and 3x multiples) is exact in binary floating point *)
(* and is modelled by exact integer arithmetic.                            *)
(***************************************************************************)
EXTENDS Integers, Sequences, FiniteSets, TLC

VARIABLES
    pc,             \* the component under analysis, then the entry point that ran
    row,            \* resolver: the flag set of one measurement
    quality_code,   \* resolver: the code assigned to `row`
    df,             \* the long-form table handed to the component
    df_sorted,      \* temporal: df ordered by ts_utc
    df_gaps,        \* temporal: one row per distinct timestamp
    df_with_flags,  \* temporal: df_sorted with delta_s, is_gap, is_small_delta
    df_limpio,      \* cleaning: the flagged table it returns
    stats_vib,      \* cleaning: the vibration statistics it returns
    df_out,         \* deduplication: the table returned by the last run
    resumen,        \* deduplication: the summary returned by the last run
    df_out_1,       \* deduplication: the table returned by the first run
    df_wide,        \* imputation: the wide table (index of slots, columns)
    max_gap_steps,  \* imputation: the longest run that may be imputed
    df_imputed,     \* imputation: the wide table of values it returns
    codes_wide,     \* imputation: the wide table of processing codes
    serie,          \* imputation: the series of a direct call on one column
    serie_metodo,   \* imputation: the strategy name of that call
    serie_out,      \* imputation: the series that call returns
    serie_codes,    \* imputation: the codes that call returns
    jitter_max_seconds, \* synchronization: the jitter tolerance of the call
    df_slots,       \* synchronization: the readings with their slot
    df_collapsed,   \* synchronization: one row per (context, slot, variable)
    df_long,        \* synchronization: the unpivoted table with codes
    df_ancho,       \* synchronization: the wide table of _pivotar_y_mapear
    df_limpio_nan,  \* cleaning: the table returned by aplicar_flags_a_nan
    df_columns,     \* structural checks: the column labels of df
    llamada,        \* structural checks: the entry point that was called
    retorno,        \* the table a call returned
    despliegue,     \* loader: the deployment record the API answered with
    peticiones,     \* loader: the requests issued so far, in order
    attempt,        \* transport: the attempt post_with_retry is in
    status_codes,   \* transport: the outcome of every POST made so far
    sleeps,         \* transport: the waits made so far, in seconds
    post_result,    \* transport: the pair post_with_retry returned
    df_proc,        \* pipeline_v2: the table of mark_sequential_anomalies
    df_imputado     \* pipeline_v2: the wide table of impute_by_group

vars == <<pc, row, quality_code, df, df_sorted, df_gaps, df_with_flags,
          df_limpio, stats_vib, df_out, resumen, df_out_1,
          df_wide, max_gap_steps, df_imputed, codes_wide,
          serie, serie_metodo, serie_out, serie_codes,
          jitter_max_seconds, df_slots, df_collapsed, df_long, df_ancho,
          df_limpio_nan, df_columns, llamada, retorno, despliegue, peticiones,
          attempt, status_codes, sleeps, post_result, df_proc, df_imputado>>

vars_resolver == <<row, quality_code>>
vars_temporal == <<df_sorted, df_gaps, df_with_flags>>
vars_cleaning == <<df_limpio, stats_vib>>
vars_dedup == <<df_out, resumen, df_out_1>>
vars_imputation == <<df_wide, max_gap_steps, df_imputed, codes_wide,
                     serie, serie_metodo, serie_out, serie_codes>>
vars_sync == <<jitter_max_seconds, df_slots, df_collapsed, df_long, df_ancho>>
vars_structural == <<df_columns, llamada, retorno>>
vars_despliegue == <<despliegue, peticiones>>
vars_retry == <<attempt, status_codes, sleeps, post_result>>
vars_v2 == <<df_proc, df_imputado>>

\* Value of a variable that the running component does not use.
Null == <<>>

\* The variables of the components that are not under analysis.
NoStructural == df_columns = Null /\ llamada = Null /\ retorno = Null
NoDespliegue == despliegue = Null /\ peticiones = Null
NoRetry ==
    attempt = Null /\ status_codes = Null /\ sleeps = Null /\ post_result = Null
NoV2 == df_proc = Null /\ df_imputado = Null

----------------------------------------------------------------------------
(* Generic helpers (pandas / numpy primitives)                             *)

Range(f) == {f[i] : i \in DOMAIN f}

\* row.get(name, False) followed by bool(): an absent column counts as False.
Flag(r, name) == name \in DOMAIN r /\ r[name]

\* Index of the first element of a boolean sequence that is TRUE, 0 if none.
FirstTrue(bs) ==
    IF \E i \in DOMAIN bs : bs[i]
    THEN CHOOSE i \in DOMAIN bs : bs[i] /\ \A j \in DOMAIN bs : bs[j] => i <= j
    ELSE 0

\* numpy.select(condlist, choicelist, default) on one row.
np_select(condlist, choicelist, default) ==
    IF FirstTrue(condlist) = 0 THEN default ELSE choicelist[FirstTrue(condlist)]


\* A cell of a numeric column: a number (in model units) or NaN / None / NaT.
Num(x) == [k |-> "num", x |-> x]
NaN == [k |-> "nan", x |-> 0]

\* pandas isna / notna.
isna(v) == v.k = "nan"
notna(v) == ~isna(v)

\* Comparisons of floats: any comparison with NaN is False.
Lt(a, b) == a.k = "num" /\ b.k = "num" /\ a.x < b.x
Gt(a, b) == Lt(b, a)

\* Series.diff() at one position: NaN when either operand is NaN.
Minus(a, b) == IF a.k = "num" /\ b.k = "num" THEN Num(a.x - b.x) ELSE NaN

\* DataFrame.sort_values("ts_utc"): SortRank is the position that row i of
\* `t` takes; rows with equal timestamps keep their relative order.
SortRank(t, i) ==
    1 + Cardinality({j \in DOMAIN t :
                        \/ t[j].ts_utc < t[i].ts_utc
                        \/ t[j].ts_utc = t[i].ts_utc /\ j < i})

sort_values(t) ==
    [n \in DOMAIN t |-> t[CHOOSE i \in DOMAIN t : SortRank(t, i) = n]]

\* The elements of a set of integers in increasing order
\* (drop_duplicates().sort_values() of a column).
RECURSIVE SortedSeq(_)
SortedSeq(S) ==
    IF S = {} THEN <<>>
    ELSE LET m == CHOOSE x \in S : \A y \in S : x <= y
         IN <<m>> \o SortedSeq(S \ {m})

\* A row extended with (or overwritten in) the columns of `cols`.
WithCols(r, cols) ==
    [c \in DOMAIN r \cup DOMAIN cols |->
        IF c \in DOMAIN cols THEN cols[c] ELSE r[c]]

----------------------------------------------------------------------------
(* Quality Code Resolver, pipeline_v2: assign_final_quality_code           *)

\* The flag columns assign_final_quality_code reads.
FinalFlagCols ==
    {"is_invalid_physical", "is_invalid_monotonic", "is_excessive_jump",
     "is_stuck_value", "is_invalid_category", "is_outlier", "is_high",
     "is_gap", "is_missing", "is_excessive_noise", "is_error"}

\* `conditions`, in the order the code lists them.
conditions(r) ==
    << r["is_invalid_physical"], r["is_invalid_monotonic"],
       r["is_excessive_jump"], r["is_stuck_value"],
       r["is_invalid_category"], r["is_outlier"], r["is_high"],
       r["is_gap"], r["is_missing"], r["is_excessive_noise"], r["is_error"] >>

choices == <<5, 6, 8, 7, 4, 3, 3, 2, 1, 10, 9>>

assign_final_quality_code(r) == np_select(conditions(r), choices, 0)

InitResolver ==
    /\ pc = "resolver"
    /\ row \in [FinalFlagCols -> BOOLEAN]
    /\ quality_code = Null
    /\ df = Null
    /\ df_sorted = Null /\ df_gaps = Null /\ df_with_flags = Null
    /\ df_limpio = Null /\ stats_vib = Null
    /\ df_out = Null /\ resumen = Null /\ df_out_1 = Null
    /\ df_wide = Null /\ max_gap_steps = Null
    /\ df_imputed = Null /\ codes_wide = Null
    /\ serie = Null /\ serie_metodo = Null
    /\ serie_out = Null /\ serie_codes = Null
    /\ jitter_max_seconds = Null /\ df_slots = Null /\ df_collapsed = Null
    /\ df_long = Null /\ df_ancho = Null
    /\ df_limpio_nan = Null
    /\ NoStructural /\ NoDespliegue /\ NoRetry /\ NoV2

AssignFinalQualityCode ==
    /\ pc = "resolver"
    /\ quality_code' = assign_final_quality_code(row)
    /\ pc' = "assign_final_quality_code"
    /\ UNCHANGED <<row, df, vars_temporal, vars_cleaning, vars_dedup,
                 vars_imputation, vars_sync>>
    /\ UNCHANGED <<df_limpio_nan, vars_structural, vars_despliegue,
                   vars_retry, vars_v2>>

NextResolver == AssignFinalQualityCode

SpecResolver == InitResolver /\ [][NextResolver]_vars

----------------------------------------------------------------------------
(* The severity hierarchy of the design: first flag that is true, in this  *)
(* order, gives the code; 0 when none is.                                  *)

SeverityOrder ==
    << "is_invalid_monotonic", "is_invalid_physical", "is_excessive_jump",
       "is_stuck_value", "is_invalid_category", "is_outlier", "is_high",
       "is_gap", "is_missing", "is_excessive_noise", "is_error" >>

SeverityCodes == <<6, 5, 8, 7, 4, 3, 3, 2, 1, 10, 9>>

HighestSeverityCode(r) ==
    np_select([i \in DOMAIN SeverityOrder |-> Flag(r, SeverityOrder[i])],
              SeverityCodes, 0)

\* C1: assign_final_quality_code gives every row the code of the first flag
\* that is true in the order invalid_monotonic (6) > invalid_physical (5) >
\* excessive_jump (8) > stuck_value (7) > invalid_category (4) > outlier (3)
\* = high (3) > gap (2) > missing (1) > excessive_noise (10) > error (9),
\* and 0 when no flag is true.
C1_FinalCodeFollowsSeverityOrder ==
    pc = "assign_final_quality_code" => quality_code = HighestSeverityCode(row)

----------------------------------------------------------------------------
(* Temporal Structure Analyzer: gaps and small deltas                      *)
(* src/pipeline/diagnostic_temporal.py (pipeline_v2 has the same code).    *)
(* Timestamps are integer seconds.                                         *)

EXPECTED_SEC == 900
\* GAP_FACTOR = 1.5 and SMALL_DELTA_FACTOR = 0.5, kept as twice their value.
GAP_FACTOR_x2 == 3
SMALL_DELTA_FACTOR_x2 == 1

\* ts_unique: the distinct timestamps of the whole table, increasing.
ts_unique(t) == SortedSeq({t[i].ts_utc : i \in DOMAIN t})

\* gaps_table with the gap test made non-strict (delta >= threshold).
gaps_table_geq(t, expected_sec, gap_factor_x2) ==
    LET u == SortedSeq({t[i].ts_utc : i \in DOMAIN t})
        delta(n) == IF n = 1 THEN NaN ELSE Num(u[n] - u[n - 1])
    IN [n \in DOMAIN u |->
          [ts_utc  |-> u[n],
           delta_s |-> delta(n),
           is_gap  |-> delta(n).k = "num"
                       /\ 2 * delta(n).x >= expected_sec * gap_factor_x2]]

\* df_gaps of preparar_estructura_temporal: delta to the previous distinct
\* timestamp (None for the first one), is_gap = delta_s > expected * factor.
gaps_table(t, expected_sec, gap_factor_x2) ==
    LET u == ts_unique(t)
        delta(n) == IF n = 1 THEN NaN ELSE Num(u[n] - u[n - 1])
    IN [n \in DOMAIN u |->
          [ts_utc  |-> u[n],
           delta_s |-> delta(n),
           is_gap  |-> delta(n).k = "num"
                       /\ 2 * delta(n).x > expected_sec * gap_factor_x2]]

\* resumen of preparar_estructura_temporal (the counts; the float statistics
\* mean, std, p25, p75 are only printed by main).
gaps_resumen(g, expected_sec, gap_factor_x2) ==
    [expected_sec     |-> expected_sec,
     gap_threshold_x2 |-> expected_sec * gap_factor_x2,
     count            |-> Cardinality({n \in DOMAIN g : notna(g[n].delta_s)}),
     num_gaps         |-> Cardinality({n \in DOMAIN g : g[n].is_gap})]

\* The row of df_gaps for a timestamp (set_index("ts_utc") then map).
GapsAt(g, ts) == g[CHOOSE n \in DOMAIN g : g[n].ts_utc = ts]

\* agregar_flags_temporales: every row looks its timestamp up in df_gaps.
agregar_flags_temporales(t, g, expected_sec, small_delta_factor_x2) ==
    [i \in DOMAIN t |->
        LET d == GapsAt(g, t[i].ts_utc).delta_s
        IN WithCols(t[i],
             [delta_s |-> d,
              is_gap  |-> GapsAt(g, t[i].ts_utc).is_gap,
              is_small_delta |->
                  /\ notna(d)
                  /\ d.x > 0
                  /\ 2 * d.x < expected_sec * small_delta_factor_x2])]

\* Bounds of the temporal inputs.
MaxTemporalRows == 3
TemporalTs == {0, 225, 450, 1800, 1801}
TemporalVars == {"Speed", "Total Running Time"}

\* The scenario of the design: deltas 900, 900, 2000, 900.
ScenarioGapsDf ==
    [n \in 1..5 |-> [ts_utc |-> <<0, 900, 1800, 3800, 4700>>[n],
                     variable |-> "Speed", valor |-> Num(0)]]

TemporalInputs ==
    {ScenarioGapsDf} \cup
    UNION {[1..n -> [ts_utc : TemporalTs, variable : TemporalVars,
                     valor : {Num(0)}]] : n \in 0..MaxTemporalRows}

InitTemporal ==
    /\ pc = "temporal"
    /\ df \in TemporalInputs
    /\ row = Null /\ quality_code = Null
    /\ df_sorted = Null /\ df_gaps = Null /\ df_with_flags = Null
    /\ df_limpio = Null /\ stats_vib = Null
    /\ df_out = Null /\ resumen = Null /\ df_out_1 = Null
    /\ df_wide = Null /\ max_gap_steps = Null
    /\ df_imputed = Null /\ codes_wide = Null
    /\ serie = Null /\ serie_metodo = Null
    /\ serie_out = Null /\ serie_codes = Null
    /\ jitter_max_seconds = Null /\ df_slots = Null /\ df_collapsed = Null
    /\ df_long = Null /\ df_ancho = Null
    /\ df_limpio_nan = Null
    /\ NoStructural /\ NoDespliegue /\ NoRetry /\ NoV2

\* preparar_estructura_temporal(df): raises ValueError on an empty table.
PrepararEstructuraTemporal ==
    /\ pc = "temporal"
    /\ IF df = <<>>
       THEN /\ pc' = "ValueError"
            /\ UNCHANGED <<df_sorted, df_gaps>>
       ELSE /\ pc' = "preparar_estructura_temporal"
            /\ df_sorted' = sort_values(df)
            /\ df_gaps' = gaps_table(df, EXPECTED_SEC, GAP_FACTOR_x2)
    /\ UNCHANGED <<df, df_with_flags, vars_resolver, vars_cleaning, vars_dedup,
                 vars_imputation, vars_sync>>
    /\ UNCHANGED <<df_limpio_nan, vars_structural, vars_despliegue,
                   vars_retry, vars_v2>>

\* agregar_flags_temporales(df_sorted, df_gaps), as main calls it.
AgregarFlagsTemporales ==
    /\ pc = "preparar_estructura_temporal"
    /\ df_with_flags' = agregar_flags_temporales(df_sorted, df_gaps,
                            EXPECTED_SEC, SMALL_DELTA_FACTOR_x2)
    /\ pc' = "agregar_flags_temporales"
    /\ UNCHANGED <<df, df_sorted, df_gaps, vars_resolver, vars_cleaning, vars_dedup,
                 vars_imputation, vars_sync>>
    /\ UNCHANGED <<df_limpio_nan, vars_structural, vars_despliegue,
                   vars_retry, vars_v2>>

NextTemporal == PrepararEstructuraTemporal \/ AgregarFlagsTemporales

SpecTemporal == InitTemporal /\ [][NextTemporal]_vars

\* The distinct timestamp that precedes ts in the input, or -1.
PrevDistinctTs(t, ts) ==
    LET before == {t[i].ts_utc : i \in DOMAIN t} \cap 0..(ts - 1)
    IN IF before = {} THEN -1
       ELSE CHOOSE x \in before : \A y \in before : y <= x

\* C9 (gap table): df_gaps has one row per distinct timestamp, increasing;
\* the first has no delta and is_gap false; every other has the difference
\* to the previous distinct timestamp, and is_gap iff delta > 900 * 1.5.
C9_GapsTable ==
    pc \in {"preparar_estructura_temporal", "agregar_flags_temporales"} =>
      /\ {df_gaps[n].ts_utc : n \in DOMAIN df_gaps}
            = {df[i].ts_utc : i \in DOMAIN df}
      /\ \A n \in DOMAIN df_gaps :
           LET g == df_gaps[n]
               p == PrevDistinctTs(df, g.ts_utc)
           IN /\ n > 1 => df_gaps[n - 1].ts_utc < g.ts_utc
              /\ p = -1 => isna(g.delta_s) /\ ~g.is_gap
              /\ p # -1 => /\ g.delta_s = Num(g.ts_utc - p)
                           /\ g.is_gap <=> (g.ts_utc - p > 1350)

\* C9 (row flags): after agregar_flags_temporales every row carries the
\* delta_s and is_gap of its timestamp, so rows sharing a timestamp agree,
\* and is_small_delta iff 0 < delta < 900 * 0.5.
C9_RowFlags ==
    pc = "agregar_flags_temporales" =>
      /\ Len(df_with_flags) = Len(df)
      /\ \A i \in DOMAIN df_with_flags :
           LET r == df_with_flags[i]
               p == PrevDistinctTs(df, r.ts_utc)
           IN /\ r.delta_s = (IF p = -1 THEN NaN ELSE Num(r.ts_utc - p))
              /\ r.is_gap <=> (p # -1 /\ r.ts_utc - p > 1350)
              /\ r.is_small_delta <=>
                   (p # -1 /\ r.ts_utc - p > 0 /\ r.ts_utc - p < 450)
              /\ \A j \in DOMAIN df_with_flags :
                   df_with_flags[j].ts_utc = r.ts_utc =>
                     /\ df_with_flags[j].delta_s = r.delta_s
                     /\ df_with_flags[j].is_gap = r.is_gap

\* C9: preparar_estructura_temporal and agregar_flags_temporales compute
\* deltas over the distinct timestamps of the whole deployment and flag
\* is_gap iff delta > expected_sec * gap_factor (strictly), is_small_delta
\* iff 0 < delta < expected_sec * small_delta_factor; the scenario with
\* deltas [900, 900, 2000, 900] flags only the 2000 s delta.
C9_TemporalFlags ==
    /\ C9_GapsTable
    /\ C9_RowFlags
    /\ (pc = "agregar_flags_temporales" /\ df = ScenarioGapsDf) =>
          [n \in 1..5 |-> df_gaps[n].is_gap]
             = <<FALSE, FALSE, FALSE, TRUE, FALSE>>

\* Witness of C9: flags were added to a table in which two rows share a
\* timestamp that follows a gap.
C9_Witness ==
    /\ pc = "agregar_flags_temporales"
    /\ \E i, j \in DOMAIN df_with_flags :
         /\ i # j
         /\ df_with_flags[i].ts_utc = df_with_flags[j].ts_utc
         /\ df_with_flags[i].is_gap

\* Further cases of C9 that the bounds reach: a delta exactly at the gap
\* threshold (1350 s, not a gap) followed by a small delta.
C9_WitnessBoundary ==
    /\ pc = "agregar_flags_temporales"
    /\ \E n \in DOMAIN df_gaps :
         df_gaps[n].delta_s = Num(1350) /\ ~df_gaps[n].is_gap
    /\ \E i \in DOMAIN df_with_flags : df_with_flags[i].is_small_delta

----------------------------------------------------------------------------
(* Variable taxonomy: conf.py (the group lists are the same in pipeline    *)
(* and pipeline_v2)                                                        *)

VIBRATION_VARS ==
    {"Vibration (Tangential)", "Vibration (Radial)", "Vibration (Axial)",
     "Overall Vibration", "Peak to Peak (Tangential)",
     "Peak to Peak (Radial)", "Peak to Peak (Axial)", "Peak to Peak",
     "Acceleration RMS (Tangential)", "Acceleration RMS (Radial)",
     "Acceleration RMS (Axial)"}

PHYSICAL_VARS ==
    {"Skin Temperature", "Motor Supply Frequency", "Speed", "Output Power"}

CATEGORICAL_VARS ==
    {"Bearing Condition", "Unbalance (BETA)", "Misalignment (BETA)",
     "Looseness (BETA)", "Number of Starts Between Measurements"}

ACCUMULATIVE_VARS == {"Total Number Of Starts", "Total Running Time"}

CATEGORICAL_DOMAINS ==
    [v \in CATEGORICAL_VARS |->
        CASE v = "Bearing Condition" -> {0, 1, 2, 3, 4}
          [] v = "Number of Starts Between Measurements" -> {0, 1, 2}
          [] OTHER -> {0, 1}]

\* The variable names in Python's string order (sort_values on "variable").
VariableOrder ==
    << "Acceleration RMS (Axial)", "Acceleration RMS (Radial)",
       "Acceleration RMS (Tangential)", "Bearing Condition",
       "Looseness (BETA)", "Misalignment (BETA)", "Motor Supply Frequency",
       "Number of Starts Between Measurements", "Output Power",
       "Overall Vibration", "Peak to Peak", "Peak to Peak (Axial)",
       "Peak to Peak (Radial)", "Peak to Peak (Tangential)",
       "Skin Temperature", "Speed", "Total Number Of Starts",
       "Total Number of Starts", "Total Running Time", "Unbalance (BETA)",
       "Vibration (Axial)", "Vibration (Radial)", "Vibration (Tangential)" >>

VarRank(v) == CHOOSE n \in DOMAIN VariableOrder : VariableOrder[n] = v

----------------------------------------------------------------------------
(* Anomaly Flagging Engine: src/pipeline/cleaning.py (limpiar_por_variable)*)
(* and src/pipeline_v2/cleaning.py (limpiar_por_variable_deteccion)        *)

\* Units of `valor` per 1.0: values are multiples of 2^-20.
Scale == 1048576

\* A raw cell that is a string: Str(x) parses to the number x ("1.0"),
\* Bad is a string that is not a number.
Str(x) == [k |-> "str", x |-> x]
Bad == [k |-> "bad", x |-> 0]

\* prev_val before the first row of a group (Python None).
None == [k |-> "none", x |-> 0]

\* pd.to_numeric(valor, errors="coerce").
to_numeric(v) == IF v.k \in {"num", "str"} THEN Num(v.x) ELSE NaN

\* Python int(float): truncation toward zero of x / Scale.
int(x) == IF x >= 0 THEN x \div Scale ELSE -((-x) \div Scale)

\* The values of a sequence of integers in increasing order.
SortInts(q) ==
    [n \in DOMAIN q |->
        q[CHOOSE i \in DOMAIN q :
            n = 1 + Cardinality({j \in DOMAIN q :
                        q[j] < q[i] \/ (q[j] = q[i] /\ j < i)})]]

\* Series.quantile(num / 4), linear interpolation, as four times its value.
quantile_x4(q, num) ==
    LET srt == SortInts(q)
        pos4 == num * (Len(q) - 1)
        lo == pos4 \div 4
        frac4 == pos4 % 4
    IN 4 * srt[lo + 1]
       + (IF frac4 = 0 THEN 0 ELSE frac4 * (srt[lo + 2] - srt[lo + 1]))

mark_missing(t) ==
    [i \in DOMAIN t |-> WithCols(t[i], [is_missing |-> isna(t[i].valor)])]

mark_invalid_physical(t) ==
    [i \in DOMAIN t |->
        WithCols(t[i],
          [is_invalid_physical |->
              /\ t[i].variable \in
                    VIBRATION_VARS \cup PHYSICAL_VARS \cup ACCUMULATIVE_VARS
              /\ Lt(to_numeric(t[i].valor), Num(0))])]

\* The non-missing numeric values of one variable, in table order.
ValidValues(t, var) ==
    LET rows == SelectSeq(t, LAMBDA r : r.variable = var
                                        /\ notna(to_numeric(r.valor)))
    IN [n \in DOMAIN rows |-> to_numeric(rows[n].valor).x]

\* compute_vibration_stats: one entry per vibration variable that has at
\* least one valid value.  q1, q3 and iqr are kept as four times their
\* value; mean is not kept.
compute_vibration_stats(t) ==
    LET present == {v \in VIBRATION_VARS : ValidValues(t, v) # <<>>}
    IN [v \in present |->
          LET q == ValidValues(t, v)
              q1 == quantile_x4(q, 1)
              q3 == quantile_x4(q, 3)
          IN [count |-> Len(q),
              min   |-> SortInts(q)[1],
              max   |-> SortInts(q)[Len(q)],
              q1_x4 |-> q1, q3_x4 |-> q3, iqr_x4 |-> q3 - q1]]

\* _flags of mark_vibration_outliers with the outlier test made non-strict.
vibration_flags_geq(r, stats) ==
    LET val == to_numeric(r.valor)
        no == [is_high |-> FALSE, is_outlier |-> FALSE]
    IN IF isna(val) THEN no
       ELSE IF r.variable \notin DOMAIN stats THEN no
       ELSE IF stats[r.variable].iqr_x4 <= 0 THEN no
       ELSE LET q1 == stats[r.variable].q1_x4
                q3 == stats[r.variable].q3_x4
                iqr == stats[r.variable].iqr_x4
                is_out == \/ 4 * val.x <= q1 - 3 * iqr
                          \/ 4 * val.x >= q3 + 3 * iqr
            IN [is_high |-> /\ ~is_out
                            /\ \/ 8 * val.x < 2 * q1 - 3 * iqr
                               \/ 8 * val.x > 2 * q3 + 3 * iqr,
                is_outlier |-> is_out]

\* _flags of mark_vibration_outliers: (is_high, is_outlier) of one row.
\*   low_high = q1 - 1.5*iqr, high_high = q3 + 1.5*iqr  (compared times 8)
\*   low_out  = q1 - 3*iqr,   high_out  = q3 + 3*iqr    (compared times 4)
vibration_flags(r, stats) ==
    LET val == to_numeric(r.valor)
        no == [is_high |-> FALSE, is_outlier |-> FALSE]
    IN IF isna(val) THEN no
       ELSE IF r.variable \notin DOMAIN stats THEN no
       ELSE IF stats[r.variable].iqr_x4 <= 0 THEN no
       ELSE LET q1 == stats[r.variable].q1_x4
                q3 == stats[r.variable].q3_x4
                iqr == stats[r.variable].iqr_x4
                is_out == \/ 4 * val.x < q1 - 3 * iqr
                          \/ 4 * val.x > q3 + 3 * iqr
            IN [is_high |-> /\ ~is_out
                            /\ \/ 8 * val.x < 2 * q1 - 3 * iqr
                               \/ 8 * val.x > 2 * q3 + 3 * iqr,
                is_outlier |-> is_out]

mark_vibration_outliers(t, stats) ==
    [i \in DOMAIN t |->
        WithCols(t[i],
          IF t[i].variable \in VIBRATION_VARS
          THEN vibration_flags(t[i], stats)
          ELSE [is_high |-> FALSE, is_outlier |-> FALSE])]

\* Domain test of mark_categorical_invalid with int() replaced by floor.
categorical_invalid_floor(r) ==
    /\ r.variable \in CATEGORICAL_VARS
    /\ r.variable \in DOMAIN CATEGORICAL_DOMAINS
    /\ notna(to_numeric(r.valor))
    /\ (to_numeric(r.valor).x \div Scale)
          \notin CATEGORICAL_DOMAINS[r.variable]

\* mark_categorical_invalid on one row: a categorical variable with a
\* domain, a value that coerces to a number, and int(value) outside it.
categorical_invalid(r) ==
    /\ r.variable \in CATEGORICAL_VARS
    /\ r.variable \in DOMAIN CATEGORICAL_DOMAINS
    /\ notna(to_numeric(r.valor))
    /\ int(to_numeric(r.valor).x) \notin CATEGORICAL_DOMAINS[r.variable]

mark_categorical_invalid(t) ==
    [i \in DOMAIN t |->
        WithCols(t[i], [is_invalid_category |-> categorical_invalid(t[i])])]

\* Row positions of `t` in the order of sort_values("ts_utc").
IdxByTs(t) == [n \in DOMAIN t |-> CHOOSE i \in DOMAIN t : SortRank(t, i) = n]

\* Positions of the rows of one variable, in timestamp order
\* (sort_values(["variable", "ts_utc"]) then groupby("variable")).
GroupIdx(t, var) == SelectSeq(IdxByTs(t), LAMBDA i : t[i].variable = var)

\* The loop of pipeline mark_accumulative_integrity over one group:
\* the positions that get is_invalid_monotonic.
RECURSIVE acc_loop(_, _, _)
acc_loop(t, idxs, prev_val) ==
    IF idxs = <<>> THEN {}
    ELSE LET val == to_numeric(t[Head(idxs)].valor)
         IN IF isna(val) THEN acc_loop(t, Tail(idxs), val)
            ELSE (IF prev_val.k = "num" /\ val.x < prev_val.x
                  THEN {Head(idxs)} ELSE {})
                 \cup acc_loop(t, Tail(idxs), val)

\* pipeline (v1) mark_accumulative_integrity.
mark_accumulative_integrity(t) ==
    LET flagged == UNION {acc_loop(t, GroupIdx(t, v), None) :
                             v \in ACCUMULATIVE_VARS}
    IN [i \in DOMAIN t |->
          WithCols(t[i], [is_invalid_monotonic |-> i \in flagged])]

\* FLOAT_TOLERANCE = -1e-6 lies strictly between -2 and -1 units of 2^-20,
\* so for a difference d of model values, d < FLOAT_TOLERANCE iff d <= -2.
FLOAT_TOLERANCE_UNITS == -2

\* DataFrame.sort_values(["ts_utc", "variable"]).
sort_values_ts_variable(t) ==
    [n \in DOMAIN t |->
        t[CHOOSE i \in DOMAIN t :
            n = 1 + Cardinality({j \in DOMAIN t :
                  \/ t[j].ts_utc < t[i].ts_utc
                  \/ /\ t[j].ts_utc = t[i].ts_utc
                     /\ VarRank(t[j].variable) < VarRank(t[i].variable)
                  \/ /\ t[j].ts_utc = t[i].ts_utc
                     /\ t[j].variable = t[i].variable
                     /\ j < i})]]

\* x.diff() < FLOAT_TOLERANCE for the row at position i of a sorted table:
\* the difference to the previous row of the same variable.
negative_change(t, i) ==
    LET before == {j \in DOMAIN t : j < i /\ t[j].variable = t[i].variable}
    IN IF before = {} THEN FALSE
       ELSE LET p == CHOOSE j \in before : \A j2 \in before : j2 <= j
                d == Minus(t[i].valor, t[p].valor)
            IN d.k = "num" /\ d.x <= FLOAT_TOLERANCE_UNITS

\* pipeline_v2 mark_accumulative_integrity(df, accumulative_vars).
mark_accumulative_integrity_v2(t, accumulative_vars) ==
    LET srt == sort_values_ts_variable(t)
    IN [i \in DOMAIN srt |->
          WithCols(srt[i],
            [is_invalid_monotonic |->
                srt[i].variable \in accumulative_vars
                /\ negative_change(srt, i)])]

\* compute_quality_code (identical in pipeline and pipeline_v2).
compute_quality_code(r) ==
    IF Flag(r, "is_invalid_monotonic") THEN 6
    ELSE IF Flag(r, "is_invalid_physical") THEN 5
    ELSE IF Flag(r, "is_invalid_category") THEN 4
    ELSE IF Flag(r, "is_outlier") THEN 3
    ELSE IF Flag(r, "is_gap") THEN 2
    ELSE IF Flag(r, "is_missing") THEN 1
    ELSE 0

with_quality_code(t) ==
    [i \in DOMAIN t |->
        WithCols(t[i], [quality_code |-> compute_quality_code(t[i])])]

\* pipeline limpiar_por_variable: (df_limpio, stats_vib).
limpiar_por_variable(t) ==
    LET sorted == sort_values(t)
        t1 == mark_missing(sorted)
        t2 == mark_invalid_physical(t1)
        stats == compute_vibration_stats(t2)
        t4 == mark_vibration_outliers(t2, stats)
        t5 == mark_categorical_invalid(t4)
        t6 == mark_accumulative_integrity(t5)
    IN [df_limpio |-> with_quality_code(t6), stats_vib |-> stats]

\* _clean_outliers_and_prepare: flag, then blank the extreme outliers.
clean_outliers_and_prepare(t, stats) ==
    LET m == mark_vibration_outliers(t, stats)
    IN [i \in DOMAIN m |->
          IF m[i].is_outlier THEN WithCols(m[i], [valor |-> NaN]) ELSE m[i]]

\* pipeline_v2 limpiar_por_variable_deteccion: (df_proc, stats_vib).
limpiar_por_variable_deteccion(t) ==
    LET num == [i \in DOMAIN t |->
                   WithCols(t[i], [valor |-> to_numeric(t[i].valor)])]
        sorted == sort_values(num)
        t1 == mark_missing(sorted)
        t2 == mark_invalid_physical(t1)
        stats == compute_vibration_stats(t2)
        t4 == clean_outliers_and_prepare(t2, stats)
        t5 == mark_categorical_invalid(t4)
        t6 == mark_accumulative_integrity_v2(t5, ACCUMULATIVE_VARS)
    IN [df_limpio |-> with_quality_code(t6), stats_vib |-> stats]

----------------------------------------------------------------------------
(* Inputs of the cleaners: tables of one deployment, annotated by the      *)
(* temporal analyzer as main does before it calls the cleaner.             *)

\* Bounds of the cleaning inputs.
VibRows == 4
MaxVibValue == 5
AccRows == 4
MaxAccValue == 3
CatRows == 2
MixRows == 4

\* Timestamp of the n-th sample: 900 s apart, with a 2000 s gap before the
\* fourth.
CleanTs(n) == IF n <= 3 THEN 900 * (n - 1) ELSE 900 * (n - 1) + 1100

\* Vibration samples are coded -2 (missing), -1 .. MaxVibValue (the value).
VibCodes == -2..MaxVibValue
VibValue(c) == IF c = -2 THEN NaN ELSE Num(c)
AccValues == {Num(x) : x \in 0..MaxAccValue} \cup {NaN}
MixValues == {Num(-1), Num(0), Num(2), NaN}
CatValues ==
    {Num(0), Num(Scale), Str(Scale), Num(2 * Scale), Num(Scale \div 2),
     Num(-(Scale \div 2)), Num(3 * (Scale \div 2)), NaN, Bad}
CatVars == {"Unbalance (BETA)", "Bearing Condition"}
MixVars == <<"Total Running Time", "Speed">>

\* The IQR rule does not depend on the order of the samples: the tables
\* list them in nondecreasing order of their code.
VibTables ==
    {[n \in 1..VibRows |-> [ts_utc |-> CleanTs(n),
                            variable |-> "Vibration (Radial)",
                            valor |-> VibValue(f[n])]] :
        f \in {g \in [1..VibRows -> VibCodes] :
                  \A n \in 1..(VibRows - 1) : g[n] <= g[n + 1]}}

AccTables ==
    {[n \in 1..AccRows |-> [ts_utc |-> CleanTs(n),
                            variable |-> "Total Running Time",
                            valor |-> f[n]]] :
        f \in [1..AccRows -> AccValues]}

\* The scenario of the design: an accumulative series 100, 105, 104, 110.
ScenarioAccDf ==
    [n \in 1..4 |-> [ts_utc |-> CleanTs(n),
                     variable |-> "Total Running Time",
                     valor |-> Num(<<100, 105, 104, 110>>[n] * Scale)]]

\* Categorical samples; the last of two follows the gap.
CatTables ==
    {[n \in 1..CatRows |-> [ts_utc |-> CleanTs(n + 2),
                            variable |-> f[n].variable,
                            valor |-> f[n].valor]] :
        f \in [1..CatRows -> [variable : CatVars, valor : CatValues]]}

\* Two variables sampled at the same timestamps, rows interleaved.
MixTables ==
    {[n \in 1..MixRows |-> [ts_utc |-> CleanTs((n + 1) \div 2),
                            variable |-> MixVars[((n - 1) % 2) + 1],
                            valor |-> f[n]]] :
        f \in [1..MixRows -> MixValues]}

\* Five vibration samples, the smallest series in which a sample can lie
\* strictly beyond Q3 + 3*IQR (0, 0, 0, 1, 5: Q1 = 0, Q3 = 1, fence 4).
ScenarioVibTables ==
    {[n \in 1..5 |-> [ts_utc |-> CleanTs(n),
                      variable |-> "Vibration (Radial)",
                      valor |-> Num(f[n])]] :
        f \in {g \in [1..5 -> {0, 1, 5}] :
                  \A n \in 1..4 : g[n] <= g[n + 1]}}

CleaningRaw ==
    VibTables \cup AccTables \cup {ScenarioAccDf} \cup CatTables \cup MixTables
        \cup ScenarioVibTables

\* main: preparar_estructura_temporal, then agregar_flags_temporales.
with_temporal_flags(t) ==
    agregar_flags_temporales(sort_values(t),
        gaps_table(t, EXPECTED_SEC, GAP_FACTOR_x2),
        EXPECTED_SEC, SMALL_DELTA_FACTOR_x2)

InitCleaning ==
    /\ pc = "cleaning"
    /\ df \in {with_temporal_flags(t) : t \in CleaningRaw}
    /\ row = Null /\ quality_code = Null
    /\ df_sorted = Null /\ df_gaps = Null /\ df_with_flags = Null
    /\ df_limpio = Null /\ stats_vib = Null
    /\ df_out = Null /\ resumen = Null /\ df_out_1 = Null
    /\ df_wide = Null /\ max_gap_steps = Null
    /\ df_imputed = Null /\ codes_wide = Null
    /\ serie = Null /\ serie_metodo = Null
    /\ serie_out = Null /\ serie_codes = Null
    /\ jitter_max_seconds = Null /\ df_slots = Null /\ df_collapsed = Null
    /\ df_long = Null /\ df_ancho = Null
    /\ df_limpio_nan = Null
    /\ NoStructural /\ NoDespliegue /\ NoRetry /\ NoV2

LimpiarPorVariable ==
    /\ pc = "cleaning"
    /\ df_limpio' = limpiar_por_variable(df).df_limpio
    /\ stats_vib' = limpiar_por_variable(df).stats_vib
    /\ pc' = "limpiar_por_variable"
    /\ UNCHANGED <<df, vars_resolver, vars_temporal, vars_dedup,
                 vars_imputation, vars_sync>>
    /\ UNCHANGED <<df_limpio_nan, vars_structural, vars_despliegue,
                   vars_retry, vars_v2>>

LimpiarPorVariableDeteccion ==
    /\ pc = "cleaning"
    /\ df_limpio' = limpiar_por_variable_deteccion(df).df_limpio
    /\ stats_vib' = limpiar_por_variable_deteccion(df).stats_vib
    /\ pc' = "limpiar_por_variable_deteccion"
    /\ UNCHANGED <<df, vars_resolver, vars_temporal, vars_dedup,
                 vars_imputation, vars_sync>>
    /\ UNCHANGED <<df_limpio_nan, vars_structural, vars_despliegue,
                   vars_retry, vars_v2>>

NextCleaning == LimpiarPorVariable \/ LimpiarPorVariableDeteccion

SpecCleaning == InitCleaning /\ [][NextCleaning]_vars

Cleaned == pc \in {"limpiar_por_variable", "limpiar_por_variable_deteccion"}

\* The raw value the cleaner was given for an output row, coerced to a
\* number: (variable, ts_utc) identifies a row of these inputs.
InputRow(r) ==
    df[CHOOSE i \in DOMAIN df :
          df[i].variable = r.variable /\ df[i].ts_utc = r.ts_utc]

InputNum(r) == to_numeric(InputRow(r).valor)

\* The input row of the same variable that immediately precedes r in time;
\* r itself when there is none.
PrevSample(r) ==
    LET before == {i \in DOMAIN df : /\ df[i].variable = r.variable
                                     /\ df[i].ts_utc < r.ts_utc}
    IN IF before = {} THEN r
       ELSE df[CHOOSE i \in before :
                  \A j \in before : df[j].ts_utc <= df[i].ts_utc]

HasPrev(r) == PrevSample(r) # r

\* C2: in the table returned by limpiar_por_variable and by
\* limpiar_por_variable_deteccion every row's quality_code is the code of
\* the highest-severity flag set on that row (is_high alone gives 3, is_gap
\* with is_missing gives 2, no flag gives 0).
C2_CodeIsHighestSeverityFlag ==
    Cleaned =>
      \A i \in DOMAIN df_limpio :
         df_limpio[i].quality_code = HighestSeverityCode(df_limpio[i])

\* C3: a sample of an accumulative variable is flagged is_invalid_monotonic
\* iff it is below the immediately preceding sample of the same variable by
\* more than the tolerance 1e-6 (v_next < v_prev - 1e-6, i.e. a difference
\* of -2 model units or less); the first sample and the rows of other
\* variables are never flagged; 100, 105, 104, 110 flags only 104.
C3_MonotonicIffDropBeyondTolerance ==
    Cleaned =>
      /\ \A i \in DOMAIN df_limpio :
           LET r == df_limpio[i]
               cur == InputNum(r)
               prev == to_numeric(PrevSample(r).valor)
           IN r.is_invalid_monotonic <=>
                /\ r.variable \in ACCUMULATIVE_VARS
                /\ HasPrev(r)
                /\ cur.k = "num" /\ prev.k = "num"
                /\ cur.x - prev.x <= -2
      /\ (\A n \in 1..4 : n \in DOMAIN df /\ df[n].valor = ScenarioAccDf[n].valor)
            => [n \in 1..4 |-> df_limpio[n].is_invalid_monotonic]
                  = <<FALSE, FALSE, TRUE, FALSE>>

\* The part of C3 that pipeline_v2 satisfies: the same statement for the
\* table returned by limpiar_por_variable_deteccion only.
C3_HoldsInPipelineV2 ==
    pc = "limpiar_por_variable_deteccion" => C3_MonotonicIffDropBeyondTolerance

\* The vibration rows the IQR rule applies to: the variable has statistics
\* with IQR > 0 and the value given to the cleaner is a number.
IqrApplies(r) ==
    /\ r.variable \in VIBRATION_VARS
    /\ r.variable \in DOMAIN stats_vib
    /\ stats_vib[r.variable].iqr_x4 > 0
    /\ InputNum(r).k = "num"

\* v < Q1 - 3*IQR or v > Q3 + 3*IQR, for the statistics st.
OutsideOuterFence(v, st) ==
    4 * v < st.q1_x4 - 3 * st.iqr_x4 \/ 4 * v > st.q3_x4 + 3 * st.iqr_x4

\* C4 (as claimed): for a vibration variable with IQR > 0, is_outlier iff
\* v < Q1-3*IQR or v > Q3+3*IQR; is_high iff v is in
\* (Q1-3*IQR, Q1-1.5*IQR] or [Q3+1.5*IQR, Q3+3*IQR); never both.
C4_HighZoneClosedAtInnerFence ==
    Cleaned =>
      \A i \in DOMAIN df_limpio :
         LET r == df_limpio[i]
             v == InputNum(r).x
             st == stats_vib[r.variable]
         IN IqrApplies(r) =>
              /\ r.is_outlier <=> OutsideOuterFence(v, st)
              /\ r.is_high <=>
                   \/ /\ 4 * v > st.q1_x4 - 3 * st.iqr_x4
                      /\ 8 * v <= 2 * st.q1_x4 - 3 * st.iqr_x4
                   \/ /\ 8 * v >= 2 * st.q3_x4 + 3 * st.iqr_x4
                      /\ 4 * v < st.q3_x4 + 3 * st.iqr_x4
              /\ ~(r.is_outlier /\ r.is_high)

\* C4 (amended): is_outlier iff v < Q1-3*IQR or v > Q3+3*IQR; is_high iff
\* v is in [Q1-3*IQR, Q1-1.5*IQR) or (Q3+1.5*IQR, Q3+3*IQR]: the 1.5*IQR
\* bounds are outside the high zone, the 3*IQR bounds inside it; never both.
C4_HighZoneOpenAtInnerFence ==
    Cleaned =>
      \A i \in DOMAIN df_limpio :
         LET r == df_limpio[i]
             v == InputNum(r).x
             st == stats_vib[r.variable]
         IN IqrApplies(r) =>
              /\ r.is_outlier <=> OutsideOuterFence(v, st)
              /\ r.is_high <=>
                   \/ /\ 4 * v >= st.q1_x4 - 3 * st.iqr_x4
                      /\ 8 * v < 2 * st.q1_x4 - 3 * st.iqr_x4
                   \/ /\ 8 * v > 2 * st.q3_x4 + 3 * st.iqr_x4
                      /\ 4 * v <= st.q3_x4 + 3 * st.iqr_x4
              /\ ~(r.is_outlier /\ r.is_high)

\* Witness of C4: a cleaned table with a value exactly on Q3 + 3*IQR, which
\* is flagged is_high and not is_outlier.
C4_Witness ==
    /\ Cleaned
    /\ \E i \in DOMAIN df_limpio :
         LET r == df_limpio[i]
         IN /\ IqrApplies(r)
            /\ 4 * InputNum(r).x
                 = stats_vib[r.variable].q3_x4 + 3 * stats_vib[r.variable].iqr_x4
            /\ r.is_high /\ ~r.is_outlier

\* Further case of C4 that the bounds reach: a value exactly on
\* Q3 + 1.5*IQR, which is neither high nor outlier.
C4_WitnessInnerFence ==
    /\ Cleaned
    /\ \E i \in DOMAIN df_limpio :
         LET r == df_limpio[i]
         IN /\ IqrApplies(r)
            /\ 8 * InputNum(r).x
                 = 2 * stats_vib[r.variable].q3_x4
                   + 3 * stats_vib[r.variable].iqr_x4
            /\ ~r.is_high /\ ~r.is_outlier

\* Further case of C4: values on the lower fences Q1 - 1.5*IQR and
\* Q1 - 3*IQR occur too.
C4_WitnessLowerFences ==
    /\ Cleaned
    /\ \E i \in DOMAIN df_limpio :
         LET r == df_limpio[i]
         IN /\ IqrApplies(r)
            /\ 4 * InputNum(r).x
                 = stats_vib[r.variable].q1_x4 - 3 * stats_vib[r.variable].iqr_x4
            /\ r.is_high

\* int(value) is a member of dom, stated on the value itself: d <= value < d+1
\* for a positive d, -1 < value < 1 for 0, d-1 < value <= d for a negative d.
TruncatesInto(x, dom) ==
    \E d \in dom :
       IF d = 0 THEN -Scale < x /\ x < Scale
       ELSE IF d > 0 THEN d * Scale <= x /\ x < (d + 1) * Scale
       ELSE (d - 1) * Scale < x /\ x <= d * Scale

\* The categorical rows C5 is about: the variable has a domain table and the
\* raw value is a number, a numeric string or missing.
CategoricalCase(r) ==
    /\ r.variable \in CATEGORICAL_VARS
    /\ r.variable \in DOMAIN CATEGORICAL_DOMAINS
    /\ InputRow(r).valor.k \in {"num", "str", "nan"}

\* C5 (as claimed): a non-missing categorical value is flagged
\* is_invalid_category iff its coercion truncated to an integer is outside
\* the domain; a missing value is not flagged and gets code 1; an
\* out-of-domain value gets code 4.
C5_MissingCategoricalGetsCode1 ==
    Cleaned =>
      \A i \in DOMAIN df_limpio :
         LET r == df_limpio[i]
             v == InputRow(r).valor
             dom == CATEGORICAL_DOMAINS[r.variable]
         IN CategoricalCase(r) =>
              IF v.k = "nan"
              THEN ~r.is_invalid_category /\ r.quality_code = 1
              ELSE /\ r.is_invalid_category <=> ~TruncatesInto(v.x, dom)
                   /\ ~TruncatesInto(v.x, dom) => r.quality_code = 4

\* C5 (amended): as claimed, except that a missing categorical value gets
\* code 1 only when its row is not flagged is_gap; when it is, it gets the
\* gap code 2.
C5_MissingCategoricalGetsCode1Or2 ==
    Cleaned =>
      \A i \in DOMAIN df_limpio :
         LET r == df_limpio[i]
             v == InputRow(r).valor
             dom == CATEGORICAL_DOMAINS[r.variable]
         IN CategoricalCase(r) =>
              IF v.k = "nan"
              THEN /\ ~r.is_invalid_category
                   /\ r.quality_code = (IF r.is_gap THEN 2 ELSE 1)
              ELSE /\ r.is_invalid_category <=> ~TruncatesInto(v.x, dom)
                   /\ ~TruncatesInto(v.x, dom) => r.quality_code = 4

\* Witness of C5: a cleaned table of "Unbalance (BETA)" (domain {0, 1}) with
\* the value 2 resolved to 4 and a missing value after a gap resolved to 2.
C5_Witness ==
    /\ Cleaned
    /\ \E i, j \in DOMAIN df_limpio :
         /\ df_limpio[i].variable = "Unbalance (BETA)"
         /\ InputRow(df_limpio[i]).valor = Num(2 * Scale)
         /\ df_limpio[i].quality_code = 4
         /\ df_limpio[j].variable = "Unbalance (BETA)"
         /\ InputRow(df_limpio[j]).valor = NaN
         /\ df_limpio[j].is_gap
         /\ df_limpio[j].quality_code = 2

\* Further case of C5 that the bounds reach: the numeric string "1.0" is in
\* the domain and is resolved to 0; a missing value outside a gap gets 1.
C5_WitnessString ==
    /\ Cleaned
    /\ \E i, j \in DOMAIN df_limpio :
         /\ df_limpio[i].variable = "Unbalance (BETA)"
         /\ InputRow(df_limpio[i]).valor = NaN
         /\ df_limpio[i].quality_code = 1
         /\ InputRow(df_limpio[j]).valor = Str(Scale)
         /\ df_limpio[j].quality_code = (IF df_limpio[j].is_gap THEN 2 ELSE 0)

----------------------------------------------------------------------------
(* Temporal Structure Analyzer: deduplication by logical key               *)
(* src/pipeline/diagnostic_temporal.py, limpiar_y_marcar_duplicados_ingestas*)

\* key_cols = [asset_codigo, motor_codigo, ts_utc, variable].
KeyOf(r) == <<r.asset_codigo, r.motor_codigo, r.ts_utc, r.variable>>

\* Positions of the rows of `t` that have the key of row r.
KeyGroup(t, r) == {j \in DOMAIN t : KeyOf(t[j]) = KeyOf(r)}

\* stats: per key, the number of rows, of non-null values and of distinct
\* non-null values.
count_rows(t, r) == Cardinality(KeyGroup(t, r))
n_notnull(t, r) == Cardinality({j \in KeyGroup(t, r) : notna(t[j].valor)})
n_unique_nonnull(t, r) ==
    Cardinality({t[j].valor : j \in {k \in KeyGroup(t, r) : notna(t[k].valor)}})

\* mask_conflict_group with the test on n_notnull instead of
\* n_unique_nonnull.
mask_conflict_group_notnull(t, i) ==
    count_rows(t, t[i]) > 1 /\ n_notnull(t, t[i]) > 1

mask_conflict_group(t, i) ==
    count_rows(t, t[i]) > 1 /\ n_unique_nonnull(t, t[i]) > 1

\* duplicated(subset = key + value) with keep=False: every copy is marked.
mask_exact_dup_keep_false(t, i) ==
    \E j \in DOMAIN t :
        j # i /\ KeyOf(t[j]) = KeyOf(t[i]) /\ t[j].valor = t[i].valor

\* duplicated(subset = key + value, keep="first"): an earlier row has the
\* same key and the same value (NaN equals NaN here).
mask_exact_dup(t, i) ==
    \E j \in DOMAIN t :
        j < i /\ KeyOf(t[j]) = KeyOf(t[i]) /\ t[j].valor = t[i].valor

mask_nan_dup(t, i) ==
    /\ count_rows(t, t[i]) > 1
    /\ n_notnull(t, t[i]) = 1
    /\ isna(t[i].valor)

\* The positions kept, in table order (df.loc[~rows_to_drop]).
KeptIdx(t) ==
    SelectSeq([i \in DOMAIN t |-> i],
              LAMBDA i : ~(mask_exact_dup(t, i) \/ mask_nan_dup(t, i)))

\* limpiar_y_marcar_duplicados_ingestas: (df_out, resumen).  An empty table
\* is returned as it is, with a summary of zeros.
limpiar_y_marcar_duplicados_ingestas(t) ==
    IF t = <<>>
    THEN [df_out |-> t,
          resumen |-> [num_exact_rows_dropped |-> 0, num_nan_dup_dropped |-> 0,
                       num_conflictive_rows |-> 0, num_keys_with_conflict |-> 0]]
    ELSE LET kept == KeptIdx(t)
             out == [n \in DOMAIN kept |->
                       WithCols(t[kept[n]],
                         [is_duplicate_key |-> mask_conflict_group(t, kept[n])])]
         IN [df_out |-> out,
             resumen |->
               [num_exact_rows_dropped |->
                    Cardinality({i \in DOMAIN t : mask_exact_dup(t, i)}),
                num_nan_dup_dropped |->
                    Cardinality({i \in DOMAIN t : mask_nan_dup(t, i)}),
                num_conflictive_rows |->
                    Cardinality({n \in DOMAIN out : out[n].is_duplicate_key}),
                num_keys_with_conflict |->
                    Cardinality({KeyOf(t[i]) : i \in
                        {k \in DOMAIN t : n_unique_nonnull(t, t[k]) > 1}})]]

\* Bounds of the deduplication inputs.
MaxDedupRows == 4
DedupTs == {0, 900}
DedupValues == {Num(1), Num(2), NaN}

DedupInputs ==
    UNION {[1..n -> [asset_codigo : {"A1"}, motor_codigo : {"M1"},
                     ts_utc : DedupTs, variable : {"Speed"},
                     valor : DedupValues]] : n \in 0..MaxDedupRows}

InitDedup ==
    /\ pc = "dedup"
    /\ df \in DedupInputs
    /\ row = Null /\ quality_code = Null
    /\ df_sorted = Null /\ df_gaps = Null /\ df_with_flags = Null
    /\ df_limpio = Null /\ stats_vib = Null
    /\ df_out = Null /\ resumen = Null /\ df_out_1 = Null
    /\ df_wide = Null /\ max_gap_steps = Null
    /\ df_imputed = Null /\ codes_wide = Null
    /\ serie = Null /\ serie_metodo = Null
    /\ serie_out = Null /\ serie_codes = Null
    /\ jitter_max_seconds = Null /\ df_slots = Null /\ df_collapsed = Null
    /\ df_long = Null /\ df_ancho = Null
    /\ df_limpio_nan = Null
    /\ NoStructural /\ NoDespliegue /\ NoRetry /\ NoV2

\* First run, on the raw table.
LimpiarDuplicados ==
    /\ pc = "dedup"
    /\ df_out' = limpiar_y_marcar_duplicados_ingestas(df).df_out
    /\ resumen' = limpiar_y_marcar_duplicados_ingestas(df).resumen
    /\ df_out_1' = df_out'
    /\ pc' = "limpiar_y_marcar_duplicados_ingestas"
    /\ UNCHANGED <<df, vars_resolver, vars_temporal, vars_cleaning,
                 vars_imputation, vars_sync>>
    /\ UNCHANGED <<df_limpio_nan, vars_structural, vars_despliegue,
                   vars_retry, vars_v2>>

\* Second run, on the table the first run returned.
LimpiarDuplicadosDeNuevo ==
    /\ pc = "limpiar_y_marcar_duplicados_ingestas"
    /\ df_out' = limpiar_y_marcar_duplicados_ingestas(df_out).df_out
    /\ resumen' = limpiar_y_marcar_duplicados_ingestas(df_out).resumen
    /\ pc' = "rerun"
    /\ UNCHANGED <<df, df_out_1, vars_resolver, vars_temporal, vars_cleaning,
                 vars_imputation, vars_sync>>
    /\ UNCHANGED <<df_limpio_nan, vars_structural, vars_despliegue,
                   vars_retry, vars_v2>>

NextDedup == LimpiarDuplicados \/ LimpiarDuplicadosDeNuevo

SpecDedup == InitDedup /\ [][NextDedup]_vars

\* The non-missing values the input holds for the key of row r.
InputValues(r) ==
    {df[j].valor : j \in {k \in DOMAIN df : KeyOf(df[k]) = KeyOf(r)
                                            /\ notna(df[k].valor)}}

\* The rows of the first run's output that have the key of row r.
OutRows(r) == {n \in DOMAIN df_out_1 : KeyOf(df_out_1[n]) = KeyOf(r)}

\* C6: deduplication is idempotent: run on its own output it returns the
\* same rows with the same is_duplicate_key flags and drops nothing.
C6_DedupIdempotent ==
    pc = "rerun" =>
      /\ df_out = df_out_1
      /\ resumen.num_exact_rows_dropped = 0
      /\ resumen.num_nan_dup_dropped = 0

\* C7: for every key with two or more distinct non-missing values in the
\* input, each of those values is still in the output for that key and
\* every output row of the key has is_duplicate_key = true; the output rows
\* of every other key have is_duplicate_key = false.
C7_ConflictsKeptAndFlagged ==
    pc = "limpiar_y_marcar_duplicados_ingestas" =>
      /\ \A i \in DOMAIN df :
           Cardinality(InputValues(df[i])) >= 2 =>
             /\ \A v \in InputValues(df[i]) :
                  \E n \in OutRows(df[i]) : df_out[n].valor = v
             /\ \A n \in OutRows(df[i]) : df_out[n].is_duplicate_key
      /\ \A n \in DOMAIN df_out :
           Cardinality(InputValues(df_out[n])) < 2 =>
             ~df_out[n].is_duplicate_key

\* Witness of C7: the first run dropped a copy from a key that holds two
\* distinct values and a repeated one, and kept an unflagged row of another key.
C7_Witness ==
    /\ pc = "limpiar_y_marcar_duplicados_ingestas"
    /\ \E i \in DOMAIN df :
         /\ Cardinality(InputValues(df[i])) = 2
         /\ Cardinality(OutRows(df[i])) < Cardinality(KeyGroup(df, df[i]))
    /\ \E n \in DOMAIN df_out : ~df_out[n].is_duplicate_key

\* C8: a key whose input rows are one non-missing row plus one or more
\* missing rows has exactly one output row, the non-missing one, unflagged;
\* a key whose rows all carry the same value (all missing included) has
\* exactly one output row.
C8_RedundantRowsDropped ==
    pc = "limpiar_y_marcar_duplicados_ingestas" =>
      \A i \in DOMAIN df :
         LET grp == KeyGroup(df, df[i])
             nonnull == {j \in grp : notna(df[j].valor)}
         IN /\ (Cardinality(nonnull) = 1 /\ Cardinality(grp) >= 2) =>
                 /\ Cardinality(OutRows(df[i])) = 1
                 /\ \A n \in OutRows(df[i]) :
                      /\ \A j \in nonnull : df_out[n].valor = df[j].valor
                      /\ ~df_out[n].is_duplicate_key
            /\ (\A j \in grp : df[j].valor = df[i].valor) =>
                 Cardinality(OutRows(df[i])) = 1

\* Witness of C8: the first run met a key with one value among missing rows
\* and a key whose rows all repeat one value.
C8_Witness ==
    /\ pc = "limpiar_y_marcar_duplicados_ingestas"
    /\ \E i \in DOMAIN df :
         /\ Cardinality(KeyGroup(df, df[i])) >= 2
         /\ Cardinality({j \in KeyGroup(df, df[i]) : notna(df[j].valor)}) = 1
    /\ \E i \in DOMAIN df :
         /\ Cardinality(KeyGroup(df, df[i])) >= 2
         /\ \A j \in KeyGroup(df, df[i]) : df[j].valor = df[i].valor
    /\ Len(df_out) = 2

----------------------------------------------------------------------------
(* Bounded Imputation Engine: src/pipeline/imputation.py                   *)
(*                                                                         *)
(* A wide table is a record [index, cols]: `index` is the sequence of the  *)
(* ts_slot values in minutes and cols[c] is the column c, a sequence of    *)
(* cells of the same length.                                               *)

\* METRICS_MAP.items(): (original ABB name, canonical name).
METRICS_MAP ==
    << <<"Speed", "speed">>,
       <<"Skin Temperature", "skin_temp">>,
       <<"Overall Vibration", "overall_vibration">>,
       <<"Acceleration RMS (Axial)", "acc_rms_axial">>,
       <<"Acceleration RMS (Radial)", "acc_rms_radial">>,
       <<"Acceleration RMS (Tangential)", "acc_rms_tangential">>,
       <<"Bearing Condition", "bearing_condition">>,
       <<"Peak to Peak (Axial)", "peak_to_peak_axial">>,
       <<"Peak to Peak (Radial)", "peak_to_peak_radial">>,
       <<"Peak to Peak (Tangential)", "peak_to_peak_tangential">>,
       <<"Peak to Peak", "peak_to_peak">>,
       <<"Vibration (Axial)", "vibration_axial">>,
       <<"Vibration (Radial)", "vibration_radial">>,
       <<"Vibration (Tangential)", "vibration_tangential">>,
       <<"Misalignment (BETA)", "misalignment_beta">>,
       <<"Total Running Time", "total_run_time">>,
       <<"Total Number of Starts", "total_num_starts">>,
       <<"Unbalance (BETA)", "unbalance_beta">>,
       <<"Motor Supply Frequency", "motor_supply_freq">>,
       <<"Output Power", "output_power">>,
       <<"Looseness (BETA)", "looseness_beta">>,
       <<"Number of Starts Between Measurements", "num_starts_betw_meas">> >>

\* METRICS_MAP_REV.get(c, c) with METRICS_MAP_REV = {v: k for k, v in
\* METRICS_MAP.items()}.
METRICS_MAP_REV_get(c) ==
    IF \E n \in DOMAIN METRICS_MAP : METRICS_MAP[n][2] = c
    THEN METRICS_MAP[CHOOSE n \in DOMAIN METRICS_MAP : METRICS_MAP[n][2] = c][1]
    ELSE c

estrategia_imputacion(variable_canonica) ==
    LET original_name == METRICS_MAP_REV_get(variable_canonica)
    IN IF original_name \in CATEGORICAL_VARS THEN "ffill"
       ELSE IF original_name \in ACCUMULATIVE_VARS THEN "ffill"
       ELSE IF original_name \in VIBRATION_VARS THEN "linear"
       ELSE IF original_name \in PHYSICAL_VARS THEN "linear"
       ELSE "linear"

\* The last non-missing position before i and the first one after i.
HasValidBefore(s, i) == \E j \in 1..(i - 1) : notna(s[j])
HasValidAfter(s, i) == \E j \in (i + 1)..Len(s) : notna(s[j])
LastValidBefore(s, i) ==
    CHOOSE j \in 1..(i - 1) :
        notna(s[j]) /\ \A k \in (j + 1)..(i - 1) : isna(s[k])
FirstValidAfter(s, i) ==
    CHOOSE j \in (i + 1)..Len(s) :
        notna(s[j]) /\ \A k \in (i + 1)..(j - 1) : isna(s[k])

\* s.interpolate(method="time") with pandas' defaults (limit_direction
\* "forward", no limit_area): a missing cell between two values lies on the
\* line through them over the index; missing cells after the last value
\* repeat it; missing cells before the first value stay missing.  The
\* interpolated value is rounded down to the value grid.
interpolate_time(s, index) ==
    [i \in DOMAIN s |->
        IF notna(s[i]) THEN s[i]
        ELSE IF ~HasValidBefore(s, i) THEN NaN
        ELSE LET p == LastValidBefore(s, i)
             IN IF ~HasValidAfter(s, i) THEN s[p]
                ELSE LET n == FirstValidAfter(s, i)
                     IN Num(s[p].x + ((s[n].x - s[p].x) * (index[i] - index[p]))
                                        \div (index[n] - index[p]))]

\* s.ffill(): a missing cell takes the last value before it, if any.
ffill(s) ==
    [i \in DOMAIN s |->
        IF notna(s[i]) THEN s[i]
        ELSE IF ~HasValidBefore(s, i) THEN NaN
        ELSE s[LastValidBefore(s, i)]]

\* The positions of the maximal run of missing cells around position i.
Segment(s, i) ==
    {j \in DOMAIN s :
        \A k \in (IF j < i THEN j ELSE i)..(IF j < i THEN i ELSE j) : isna(s[k])}

\* _imputar_serie_limitada with the loop acting on every segment, the
\* segments of non-missing cells included.
imputar_serie_limitada_every_segment(s, index, metodo, max_steps) ==
    LET original == [s |-> s, codes |-> [i \in DOMAIN s |-> 0]]
        s_aux == IF metodo = "linear" THEN interpolate_time(s, index) ELSE ffill(s)
        code_imputed == IF metodo = "linear" THEN 1 ELSE 2
        run(i) == {j \in DOMAIN s :
                     \A k \in (IF j < i THEN j ELSE i)..(IF j < i THEN i ELSE j) :
                        isna(s[k]) = isna(s[i])}
        imputable(i) == Cardinality(run(i)) <= max_steps
    IN IF \A i \in DOMAIN s : notna(s[i]) THEN original
       ELSE IF metodo \notin {"linear", "ffill"} THEN original
       ELSE [s |-> [i \in DOMAIN s |-> IF imputable(i) THEN s_aux[i] ELSE s[i]],
             codes |-> [i \in DOMAIN s |->
                          IF imputable(i) THEN code_imputed ELSE 3]]

\* _imputar_serie_limitada(s, metodo, max_gap_steps, 1, 2, 3) on a series s
\* over `index`: [s, codes].
imputar_serie_limitada(s, index, metodo, max_steps) ==
    LET original == [s |-> s, codes |-> [i \in DOMAIN s |-> 0]]
        s_aux == IF metodo = "linear" THEN interpolate_time(s, index) ELSE ffill(s)
        code_imputed == IF metodo = "linear" THEN 1 ELSE 2
        imputable(i) == Cardinality(Segment(s, i)) <= max_steps
        s_loop == [i \in DOMAIN s |->
                     IF isna(s[i]) /\ imputable(i) THEN s_aux[i] ELSE s[i]]
        codes_loop == [i \in DOMAIN s |->
                         IF notna(s[i]) THEN 0
                         ELSE IF imputable(i) THEN code_imputed ELSE 3]
    IN IF \A i \in DOMAIN s : notna(s[i]) THEN original
       ELSE IF metodo \notin {"linear", "ffill"} THEN original
       ELSE [s |-> s_loop,
             codes |-> [i \in DOMAIN s |->
                          IF isna(s_loop[i]) /\ codes_loop[i] = 0
                          THEN 3 ELSE codes_loop[i]]]

\* imputar_dataset_ancho(df_wide, max_gap_steps): [df, codes].  An empty
\* table is returned twice.
imputar_dataset_ancho(w, max_steps) ==
    IF w.index = <<>> \/ DOMAIN w.cols = {}
    THEN [df |-> w, codes |-> w]
    ELSE LET num == [c \in DOMAIN w.cols |->
                       [i \in DOMAIN w.cols[c] |-> to_numeric(w.cols[c][i])]]
             res == [c \in DOMAIN w.cols |->
                       imputar_serie_limitada(num[c], w.index,
                                              estrategia_imputacion(c), max_steps)]
         IN [df |-> [index |-> w.index,
                     cols |-> [c \in DOMAIN w.cols |-> res[c].s]],
             codes |-> [index |-> w.index,
                        cols |-> [c \in DOMAIN w.cols |-> res[c].codes]]]

\* Bounds of the imputation inputs.
MaxSlots == 4
MaxGapSteps == 2

\* The 15-minute grid of n slots, in minutes.
SlotIndex(n) == [i \in 1..n |-> (i - 1) * 15]

LinearValues == {NaN, Num(Scale), Num(4 * Scale)}
FfillValues == {NaN, Num(Scale)}

WideInputs ==
    UNION {{[index |-> SlotIndex(n),
             cols |-> [skin_temp |-> a, bearing_condition |-> b]] :
              a \in [1..n -> LinearValues], b \in [1..n -> FfillValues]} :
           n \in 0..MaxSlots}

InitImputation ==
    /\ pc = "imputation"
    /\ df_wide \in WideInputs
    /\ max_gap_steps \in 1..MaxGapSteps
    /\ df_imputed = Null /\ codes_wide = Null
    /\ serie = Null /\ serie_metodo = Null
    /\ serie_out = Null /\ serie_codes = Null
    /\ jitter_max_seconds = Null /\ df_slots = Null /\ df_collapsed = Null
    /\ df_long = Null /\ df_ancho = Null
    /\ df_limpio_nan = Null
    /\ NoStructural /\ NoDespliegue /\ NoRetry /\ NoV2
    /\ df = Null /\ row = Null /\ quality_code = Null
    /\ df_sorted = Null /\ df_gaps = Null /\ df_with_flags = Null
    /\ df_limpio = Null /\ stats_vib = Null
    /\ df_out = Null /\ resumen = Null /\ df_out_1 = Null

\* imputar_dataset_ancho, called on the table under analysis or, as main
\* does, on the table construir_dataset_ancho_sin_imputar returned.
ImputarDatasetAncho ==
    /\ pc \in {"imputation", "construir_dataset_ancho_sin_imputar"}
    /\ df_imputed' = imputar_dataset_ancho(df_wide, max_gap_steps).df
    /\ codes_wide' = imputar_dataset_ancho(df_wide, max_gap_steps).codes
    /\ pc' = "imputar_dataset_ancho"
    /\ UNCHANGED <<df, df_wide, max_gap_steps, serie, serie_metodo, serie_out,
                   serie_codes, vars_resolver, vars_temporal,
                   vars_cleaning, vars_dedup,
                   vars_sync>>
    /\ UNCHANGED <<df_limpio_nan, vars_structural, vars_despliegue,
                   vars_retry, vars_v2>>

\* The strategy names a caller may pass: the two known ones and another.
Metodos == {"linear", "ffill", "spline"}

\* A direct call of _imputar_serie_limitada on one column of df_wide.  The
\* function has no raise statement: every call returns.
ImputarSerieLimitada ==
    /\ pc = "imputation"
    /\ \E c \in DOMAIN df_wide.cols, m \in Metodos :
         /\ serie' = df_wide.cols[c]
         /\ serie_metodo' = m
         /\ serie_out' = imputar_serie_limitada(df_wide.cols[c], df_wide.index,
                                                 m, max_gap_steps).s
         /\ serie_codes' = imputar_serie_limitada(df_wide.cols[c], df_wide.index,
                                                   m, max_gap_steps).codes
    /\ pc' = "_imputar_serie_limitada"
    /\ UNCHANGED <<df, df_wide, max_gap_steps, df_imputed, codes_wide,
                   vars_resolver, vars_temporal, vars_cleaning, vars_dedup,
                   vars_sync>>
    /\ UNCHANGED <<df_limpio_nan, vars_structural, vars_despliegue,
                   vars_retry, vars_v2>>

NextImputation == ImputarDatasetAncho \/ ImputarSerieLimitada

SpecImputation == InitImputation /\ [][NextImputation]_vars

\* The code of the method imputar_dataset_ancho uses for column c.
MethodCode(c) == IF estrategia_imputacion(c) = "linear" THEN 1 ELSE 2

\* C10: for every column and every maximal run of missing cells, wherever
\* it lies: a run of at most max_gap_steps cells is filled with non-missing
\* values and carries the column's method code in every cell; a longer run
\* stays missing and carries code 3 in every cell.
C10_RunsImputedWithinBound ==
    pc = "imputar_dataset_ancho" =>
      \A c \in DOMAIN df_wide.cols :
        \A i \in DOMAIN df_wide.cols[c] :
          isna(df_wide.cols[c][i]) =>
            IF Cardinality(Segment(df_wide.cols[c], i)) <= max_gap_steps
            THEN /\ notna(df_imputed.cols[c][i])
                 /\ codes_wide.cols[c][i] = MethodCode(c)
            ELSE /\ isna(df_imputed.cols[c][i])
                 /\ codes_wide.cols[c][i] = 3

\* The part of C10 that holds: runs that have a value before them.
C10_RunsAfterAValue ==
    pc = "imputar_dataset_ancho" =>
      \A c \in DOMAIN df_wide.cols :
        \A i \in DOMAIN df_wide.cols[c] :
          (isna(df_wide.cols[c][i]) /\ HasValidBefore(df_wide.cols[c], i)) =>
            IF Cardinality(Segment(df_wide.cols[c], i)) <= max_gap_steps
            THEN /\ notna(df_imputed.cols[c][i])
                 /\ codes_wide.cols[c][i] = MethodCode(c)
            ELSE /\ isna(df_imputed.cols[c][i])
                 /\ codes_wide.cols[c][i] = 3

\* C11: after imputar_dataset_ancho provenance and values agree in every
\* cell: code 3 if and only if the value is missing, and a cell with code
\* 0, 1 or 2 holds a non-missing value.
C11_ProvenanceAgreesWithValues ==
    pc = "imputar_dataset_ancho" =>
      \A c \in DOMAIN df_wide.cols :
        \A i \in DOMAIN df_wide.cols[c] :
          /\ codes_wide.cols[c][i] = 3 <=> isna(df_imputed.cols[c][i])
          /\ codes_wide.cols[c][i] \in {0, 1, 2} => notna(df_imputed.cols[c][i])

\* C12: a call of _imputar_serie_limitada with a strategy other than
\* "linear" or "ffill" on a series with missing cells fails with an error;
\* it never returns with a missing cell that carries code 0.
C12_UnknownStrategyFails ==
    (/\ pc \in {"_imputar_serie_limitada", "ValueError"}
     /\ serie_metodo \notin {"linear", "ffill"}
     /\ \E i \in DOMAIN serie : isna(serie[i]))
      => pc = "ValueError"

----------------------------------------------------------------------------
(* Time Synchronizer: src/pipeline/sync_timestamp.py                       *)
(*                                                                         *)
(* Timestamps of the long table are seconds; the index of a wide table is  *)
(* kept in minutes, as in the imputation engine.                           *)

\* freq = "15min", in seconds.
FREQ == 900

abs(x) == IF x < 0 THEN -x ELSE x

\* Timestamp.floor(freq), Timestamp.ceil(freq).
floor_freq(t, f) == (t \div f) * f
ceil_freq(t, f) == IF t % f = 0 THEN t ELSE (t \div f + 1) * f

\* Timestamp.round(freq): the nearest multiple of freq; a timestamp half way
\* between two multiples goes to the even one.
round_freq(t, f) ==
    LET q == t \div f
        r == t % f
    IN IF 2 * r < f THEN q * f
       ELSE IF 2 * r > f THEN (q + 1) * f
       ELSE IF q % 2 = 0 THEN q * f ELSE (q + 1) * f

\* build_time_grid: date_range(floor(ts_min), ceil(ts_max), freq).
build_time_grid(ts_min, ts_max, f) ==
    LET start == floor_freq(ts_min, f)
        end == ceil_freq(ts_max, f)
    IN [n \in 1..((end - start) \div f + 1) |-> start + (n - 1) * f]

\* assign_time_slots with strict < in the jitter test.
assign_time_slots_lt(t, f, jitter) ==
    IF t = <<>> THEN t
    ELSE SelectSeq(
           [i \in DOMAIN t |->
              WithCols(t[i],
                [ts_slot |-> round_freq(t[i].ts_utc, f),
                 is_within_jitter |->
                    abs(t[i].ts_utc - round_freq(t[i].ts_utc, f)) < jitter])],
           LAMBDA r : r.is_within_jitter)

\* assign_time_slots: every row gets ts_slot and is_within_jitter; the rows
\* within the tolerance are returned.
assign_time_slots(t, f, jitter) ==
    IF t = <<>> THEN t
    ELSE SelectSeq(
           [i \in DOMAIN t |->
              WithCols(t[i],
                [ts_slot |-> round_freq(t[i].ts_utc, f),
                 is_within_jitter |->
                    abs(t[i].ts_utc - round_freq(t[i].ts_utc, f)) <= jitter])],
           LAMBDA r : r.is_within_jitter)

\* df.sort_values(["ts_utc", "ingesta_id"]): stable.
sort_values_ts_ingesta(t) ==
    [n \in DOMAIN t |->
        t[CHOOSE i \in DOMAIN t :
            n = 1 + Cardinality({j \in DOMAIN t :
                  \/ t[j].ts_utc < t[i].ts_utc
                  \/ /\ t[j].ts_utc = t[i].ts_utc
                     /\ t[j].ingesta_id < t[i].ingesta_id
                  \/ /\ t[j].ts_utc = t[i].ts_utc
                     /\ t[j].ingesta_id = t[i].ingesta_id
                     /\ j < i})]]

\* group_cols = context_cols + ["ts_slot", "variable"].
GroupKey(r) == <<r.despliegue_id, r.ts_slot, r.variable>>

\* The order in which groupby (sort=True) returns the group keys.
GroupKeyLess(a, b) ==
    \/ a[1] < b[1]
    \/ a[1] = b[1] /\ a[2] < b[2]
    \/ a[1] = b[1] /\ a[2] = b[2] /\ VarRank(a[3]) < VarRank(b[3])

\* GroupBy.agg("last") of `valor`: the last non-null value of the group in
\* table order, NaN when the group has none.
agg_last(t, key) ==
    LET idx == {i \in DOMAIN t : GroupKey(t[i]) = key /\ notna(t[i].valor)}
    IN IF idx = {} THEN NaN
       ELSE t[CHOOSE i \in idx : \A j \in idx : j <= i].valor

\* collapse_by_slot_and_variable: one row per group key, with the "last"
\* value of the group after sorting by timestamp and ingestion id.
collapse_by_slot_and_variable(t) ==
    IF t = <<>> THEN t
    ELSE LET num == [i \in DOMAIN t |->
                       WithCols(t[i], [valor |-> to_numeric(t[i].valor)])]
             srt == sort_values_ts_ingesta(num)
             keys == {GroupKey(srt[i]) : i \in DOMAIN srt}
             key_at(n) == CHOOSE k \in keys :
                            Cardinality({k2 \in keys : GroupKeyLess(k2, k)}) = n - 1
         IN [n \in 1..Cardinality(keys) |->
               [despliegue_id |-> key_at(n)[1],
                ts_slot |-> key_at(n)[2],
                variable |-> key_at(n)[3],
                valor |-> agg_last(srt, key_at(n))]]

\* The column label pandas gives to a missing variable_canonica.
nan_label == "NaN"

\* Series.map(METRICS_MAP): the canonical name, missing for a variable that
\* is not a key of METRICS_MAP.
map_METRICS_MAP(v) ==
    IF \E n \in DOMAIN METRICS_MAP : METRICS_MAP[n][1] = v
    THEN METRICS_MAP[CHOOSE n \in DOMAIN METRICS_MAP : METRICS_MAP[n][1] = v][2]
    ELSE nan_label

\* aplicar_mapeo_canonico: variable_canonica is the mapped name (missing when
\* unmapped); variable becomes the mapped name where there is one.
aplicar_mapeo_canonico(t) ==
    IF t = <<>> THEN t
    ELSE [i \in DOMAIN t |->
            WithCols(t[i],
              [variable_canonica |-> map_METRICS_MAP(t[i].variable),
               variable |-> IF map_METRICS_MAP(t[i].variable) = nan_label
                            THEN t[i].variable
                            ELSE map_METRICS_MAP(t[i].variable)])]

\* DataFrame.pivot raises ValueError when two rows share (index, column).
pivot_has_duplicates(t) ==
    \E i, j \in DOMAIN t :
        /\ i # j
        /\ t[i].ts_slot = t[j].ts_slot
        /\ t[i].variable_canonica = t[j].variable_canonica

\* pivotar_estado_activo on a table without duplicates: index = the sorted
\* slots, one column per variable_canonica, NaN where there is no row.
pivotar_estado_activo(t) ==
    LET slots == SortedSeq({t[i].ts_slot : i \in DOMAIN t})
        cell(ts, c) ==
            IF \E i \in DOMAIN t : t[i].ts_slot = ts /\ t[i].variable_canonica = c
            THEN t[CHOOSE i \in DOMAIN t :
                     t[i].ts_slot = ts /\ t[i].variable_canonica = c].valor
            ELSE NaN
    IN [index |-> [n \in DOMAIN slots |-> slots[n] \div 60],
        cols |-> [c \in {t[i].variable_canonica : i \in DOMAIN t} |->
                    [n \in DOMAIN slots |-> cell(slots[n], c)]]]

\* remuestrear_rejilla_completa: reindex on the grid built from the first
\* and the last slot of the pivoted table.
remuestrear_rejilla_completa(w, f) ==
    IF w.index = <<>> THEN w
    ELSE LET grid == build_time_grid(w.index[1] * 60, w.index[Len(w.index)] * 60, f)
             pos(ts) == CHOOSE n \in DOMAIN w.index : w.index[n] * 60 = ts
         IN [index |-> [n \in DOMAIN grid |-> grid[n] \div 60],
             cols |-> [c \in DOMAIN w.cols |->
                         [n \in DOMAIN grid |->
                            IF \E m \in DOMAIN w.index : w.index[m] * 60 = grid[n]
                            THEN w.cols[c][pos(grid[n])]
                            ELSE NaN]]]

\* A wide table without slots and without columns (pd.DataFrame()).
EmptyWide == [index |-> <<>>, cols |-> <<>>]
\* Bounds and values of the synchronization inputs.
MaxSyncRows == 2
SyncTs == {0, 60, 61, 1800}
SyncVars == {"Skin Temperature", "Total Running Time", "Total Number Of Starts"}
SyncValues(v) ==
    IF v = "Skin Temperature" THEN {Num(Scale), Num(2 * Scale), NaN}
    ELSE IF v = "Total Running Time" THEN {Num(Scale), Num(2 * Scale)}
    ELSE {Num(Scale)}

\* The readings of one deployment; ingesta_id is the row's position.
SyncReadings ==
    UNION {[ts_utc : SyncTs, variable : {v}, valor : SyncValues(v)] : v \in SyncVars}

SyncInputs ==
    UNION {{[i \in 1..n |->
               WithCols(f[i], [ingesta_id |-> i, despliegue_id |-> 1])] :
            f \in [1..n -> SyncReadings]} : n \in 0..MaxSyncRows}

\* jitter_max_seconds: the default and the value main passes.
JitterChoices == {60, 450}

InitSync ==
    /\ pc = "sync"
    /\ df \in SyncInputs
    /\ max_gap_steps = 2
    /\ df_wide = Null
    /\ df_imputed = Null /\ codes_wide = Null
    /\ serie = Null /\ serie_metodo = Null
    /\ serie_out = Null /\ serie_codes = Null
    /\ jitter_max_seconds = Null /\ df_slots = Null /\ df_collapsed = Null
    /\ df_long = Null /\ df_ancho = Null
    /\ df_limpio_nan = Null
    /\ NoStructural /\ NoDespliegue /\ NoRetry /\ NoV2
    /\ row = Null /\ quality_code = Null
    /\ df_sorted = Null /\ df_gaps = Null /\ df_with_flags = Null
    /\ df_limpio = Null /\ stats_vib = Null
    /\ df_out = Null /\ resumen = Null /\ df_out_1 = Null

AssignTimeSlots ==
    /\ pc = "sync"
    /\ \E j \in JitterChoices :
         /\ jitter_max_seconds' = j
         /\ df_slots' = assign_time_slots(df, FREQ, j)
    /\ pc' = "assign_time_slots"
    /\ UNCHANGED <<df, df_collapsed, df_long, df_ancho, vars_resolver,
                   vars_temporal, vars_cleaning, vars_dedup, vars_imputation>>
    /\ UNCHANGED <<df_limpio_nan, vars_structural, vars_despliegue,
                   vars_retry, vars_v2>>

\* construir_dataset_ancho_sin_imputar: slots, collapse, canonical names,
\* pivot, full grid.  An empty input and an input with no reading within
\* the tolerance give a table without cells; a pivot with duplicate entries
\* raises ValueError.
ConstruirDatasetAnchoSinImputar ==
    /\ pc = "sync"
    /\ \E j \in JitterChoices :
         LET slots == assign_time_slots(df, FREQ, j)
             collapsed == collapse_by_slot_and_variable(slots)
             mapped == aplicar_mapeo_canonico(collapsed)
         IN /\ jitter_max_seconds' = j
            /\ df_slots' = slots
            /\ df_collapsed' = collapsed
            /\ IF slots = <<>>
               THEN /\ df_wide' = EmptyWide
                    /\ pc' = "construir_dataset_ancho_sin_imputar"
               ELSE IF pivot_has_duplicates(mapped)
               THEN /\ df_wide' = df_wide
                    /\ pc' = "ValueError"
               ELSE /\ df_wide' = remuestrear_rejilla_completa(
                                      pivotar_estado_activo(mapped), FREQ)
                    /\ pc' = "construir_dataset_ancho_sin_imputar"
    /\ UNCHANGED <<df, max_gap_steps, df_imputed, codes_wide, serie,
                   serie_metodo, serie_out, serie_codes, df_long, df_ancho,
                   vars_resolver, vars_temporal, vars_cleaning, vars_dedup>>
    /\ UNCHANGED <<df_limpio_nan, vars_structural, vars_despliegue,
                   vars_retry, vars_v2>>

\* get_agg_function of _pivotar_y_mapear (src/pipeline_v2/cleaning.py): it
\* is handed to SeriesGroupBy.agg, which calls it with each group's series
\* of `valor`; series.name is the name of that series, and what the
\* function returns is the aggregated value of the group.
get_agg_function(series_name, accumulative_vars) ==
    IF series_name \in accumulative_vars THEN "max" ELSE "mean"

\* The cell holding the text get_agg_function returned: a non-numeric string.
agg_get_agg_function(accumulative_vars) ==
    IF get_agg_function("valor", accumulative_vars) \in {"max", "mean"}
    THEN Bad ELSE NaN

\* metrics_map.get(col, col).
metrics_map_get(col) ==
    IF map_METRICS_MAP(col) = nan_label THEN col ELSE map_METRICS_MAP(col)

\* _pivotar_y_mapear(df_quality, METRICS_MAP, resample_freq,
\* accumulative_vars): floor the timestamps, aggregate per (slot, variable),
\* pivot, rename the columns.
pivotar_y_mapear(t, resample_freq, accumulative_vars) ==
    LET slots == SortedSeq({floor_freq(t[i].ts_utc, resample_freq) : i \in DOMAIN t})
        has(ts, v) == \E i \in DOMAIN t :
                        floor_freq(t[i].ts_utc, resample_freq) = ts /\ t[i].variable = v
    IN [index |-> [n \in DOMAIN slots |-> slots[n] \div 60],
        cols |-> [c \in {metrics_map_get(t[i].variable) : i \in DOMAIN t} |->
                    [n \in DOMAIN slots |->
                       IF \E i \in DOMAIN t :
                            /\ metrics_map_get(t[i].variable) = c
                            /\ has(slots[n], t[i].variable)
                       THEN agg_get_agg_function(accumulative_vars)
                       ELSE NaN]]]

PivotarYMapear ==
    /\ pc = "sync"
    /\ df_ancho' = pivotar_y_mapear(df, FREQ, ACCUMULATIVE_VARS)
    /\ pc' = "_pivotar_y_mapear"
    /\ UNCHANGED <<df, jitter_max_seconds, df_slots, df_collapsed, df_long,
                   vars_resolver, vars_temporal, vars_cleaning, vars_dedup,
                   vars_imputation>>
    /\ UNCHANGED <<df_limpio_nan, vars_structural, vars_despliegue,
                   vars_retry, vars_v2>>

\* The order of the columns of a pivoted table: the missing label first,
\* then the canonical names in increasing order.
ColumnOrder ==
    << nan_label, "acc_rms_axial", "acc_rms_radial", "acc_rms_tangential",
       "bearing_condition", "looseness_beta", "misalignment_beta",
       "motor_supply_freq", "num_starts_betw_meas", "output_power",
       "overall_vibration", "peak_to_peak", "peak_to_peak_axial",
       "peak_to_peak_radial", "peak_to_peak_tangential", "skin_temp", "speed",
       "total_num_starts", "total_run_time", "unbalance_beta",
       "vibration_axial", "vibration_radial", "vibration_tangential" >>

\* The columns of wide table w in column order.
columns(w) ==
    SelectSeq(ColumnOrder, LAMBDA c : c \in DOMAIN w.cols)

\* dataset_ancho_a_largo_con_codigos (src/pipeline/imputation.py): stack
\* values and codes (one row per slot and column, missing kept), merge them
\* on (ts_slot, variable_canonica), map the name back with METRICS_MAP_REV
\* and fall back to the canonical name.
dataset_ancho_a_largo_con_codigos(values, codes) ==
    LET cs == columns(values)
        nc == Len(cs)
        slot(k) == (k - 1) \div nc + 1
        col(k) == cs[((k - 1) % nc) + 1]
        code_rows(k) ==
            {<<n, c>> \in (DOMAIN codes.index) \X (DOMAIN codes.cols) :
                codes.index[n] = values.index[slot(k)] /\ c = col(k)}
    IN [k \in 1..(Len(values.index) * nc) |->
          [ts_slot |-> values.index[slot(k)],
           variable_canonica |-> col(k),
           valor |-> values.cols[col(k)][slot(k)],
           processing_code |->
               IF code_rows(k) = {} THEN NaN
               ELSE LET nc2 == CHOOSE x \in code_rows(k) : TRUE
                    IN codes.cols[nc2[2]][nc2[1]],
           variable |-> METRICS_MAP_REV_get(col(k))]]

\* The unpivot of the imputed table, as main does after the imputation; the
\* unpivot of a table without cells is not modelled.
DatasetAnchoALargo ==
    /\ pc = "imputar_dataset_ancho"
    /\ df_imputed.index # <<>>
    /\ df_long' = dataset_ancho_a_largo_con_codigos(df_imputed, codes_wide)
    /\ pc' = "dataset_ancho_a_largo_con_codigos"
    /\ UNCHANGED <<df, jitter_max_seconds, df_slots, df_collapsed, df_ancho,
                   vars_resolver, vars_temporal, vars_cleaning, vars_dedup,
                   vars_imputation>>
    /\ UNCHANGED <<df_limpio_nan, vars_structural, vars_despliegue,
                   vars_retry, vars_v2>>

NextSync ==
    \/ AssignTimeSlots
    \/ ConstruirDatasetAnchoSinImputar
    \/ ImputarDatasetAncho
    \/ DatasetAnchoALargo
    \/ PivotarYMapear

SpecSync == InitSync /\ [][NextSync]_vars

\* The timestamps of the readings of the input table.
ReadingTs == {df[i].ts_utc : i \in DOMAIN df}
MinTs == CHOOSE t \in ReadingTs : \A u \in ReadingTs : t <= u
MaxTs == CHOOSE t \in ReadingTs : \A u \in ReadingTs : u <= t

\* C13: the wide table's index is exactly the multiples of freq from
\* floor(min_ts) to ceil(max_ts) of the reading timestamps, increasing and
\* freq apart; a slot no reading was assigned to has every column missing;
\* every collapsed (slot, variable) reading is in its slot's row.
C13_WideTableOnFullGrid ==
    (pc = "construir_dataset_ancho_sin_imputar" /\ df # <<>>) =>
      /\ df_wide.index =
           [n \in DOMAIN build_time_grid(MinTs, MaxTs, FREQ) |->
              build_time_grid(MinTs, MaxTs, FREQ)[n] \div 60]
      /\ \A n \in DOMAIN df_wide.index :
           (\A i \in DOMAIN df_slots : df_slots[i].ts_slot # df_wide.index[n] * 60)
             => \A c \in DOMAIN df_wide.cols : isna(df_wide.cols[c][n])
      /\ \A i \in DOMAIN df_collapsed :
           \E n \in DOMAIN df_wide.index :
             /\ df_wide.index[n] * 60 = df_collapsed[i].ts_slot
             /\ map_METRICS_MAP(df_collapsed[i].variable) \in DOMAIN df_wide.cols
             /\ df_wide.cols[map_METRICS_MAP(df_collapsed[i].variable)][n]
                  = df_collapsed[i].valor

\* The part of C13 that holds: the index is the grid from the first to the
\* last assigned slot, with the two cell properties.
C13_GridBetweenAssignedSlots ==
    (pc = "construir_dataset_ancho_sin_imputar" /\ df_slots # <<>>) =>
      LET first == CHOOSE t \in {df_slots[i].ts_slot : i \in DOMAIN df_slots} :
                      \A i \in DOMAIN df_slots : t <= df_slots[i].ts_slot
          last == CHOOSE t \in {df_slots[i].ts_slot : i \in DOMAIN df_slots} :
                      \A i \in DOMAIN df_slots : df_slots[i].ts_slot <= t
      IN /\ df_wide.index =
              [n \in 1..((last - first) \div FREQ + 1) |->
                 (first + (n - 1) * FREQ) \div 60]
         /\ \A n \in DOMAIN df_wide.index :
              (\A i \in DOMAIN df_slots :
                  df_slots[i].ts_slot # df_wide.index[n] * 60)
                => \A c \in DOMAIN df_wide.cols : isna(df_wide.cols[c][n])
         /\ \A i \in DOMAIN df_collapsed :
              \E n \in DOMAIN df_wide.index :
                /\ df_wide.index[n] * 60 = df_collapsed[i].ts_slot
                /\ df_wide.cols[map_METRICS_MAP(df_collapsed[i].variable)][n]
                     = df_collapsed[i].valor

\* The positions of the readings of variable v in table t that fall in
\* `slot`, by ts_slot and by the floor of ts_utc.
AccReadingsInSlot(t, v, slot) ==
    {i \in DOMAIN t : t[i].variable = v /\ t[i].ts_slot = slot}
AccReadingsInFloor(t, v, slot) ==
    {i \in DOMAIN t : t[i].variable = v /\ floor_freq(t[i].ts_utc, FREQ) = slot}

\* v is the greatest value among the readings at positions idx of t.
IsMaxOf(v, t, idx) ==
    /\ \E i \in idx : t[i].valor = v
    /\ \A i \in idx : notna(t[i].valor) => t[i].valor.x <= v.x

\* C14: when several readings of an accumulative variable fall in one slot,
\* the cell of that (slot, variable) is the maximum of their values, in
\* collapse_by_slot_and_variable and in _pivotar_y_mapear.
C14_CounterCellIsMax ==
    /\ pc = "construir_dataset_ancho_sin_imputar" =>
         \A n \in DOMAIN df_collapsed :
           LET r == df_collapsed[n]
               idx == AccReadingsInSlot(df_slots, r.variable, r.ts_slot)
           IN (r.variable \in ACCUMULATIVE_VARS /\ Cardinality(idx) >= 2)
                => IsMaxOf(r.valor, df_slots, idx)
    /\ pc = "_pivotar_y_mapear" =>
         \A v \in ACCUMULATIVE_VARS, n \in DOMAIN df_ancho.index :
           LET idx == AccReadingsInFloor(df, v, df_ancho.index[n] * 60)
           IN Cardinality(idx) >= 2
                => IsMaxOf(df_ancho.cols[metrics_map_get(v)][n], df, idx)

\* C14 for collapse_by_slot_and_variable alone.
C14_CollapseTakesMax ==
    pc = "construir_dataset_ancho_sin_imputar" =>
      \A n \in DOMAIN df_collapsed :
        LET r == df_collapsed[n]
            idx == AccReadingsInSlot(df_slots, r.variable, r.ts_slot)
        IN (r.variable \in ACCUMULATIVE_VARS /\ Cardinality(idx) >= 2)
             => IsMaxOf(r.valor, df_slots, idx)

\* C14 for _pivotar_y_mapear alone.
C14_PivotTakesMax ==
    pc = "_pivotar_y_mapear" =>
      \A v \in ACCUMULATIVE_VARS, n \in DOMAIN df_ancho.index :
        LET idx == AccReadingsInFloor(df, v, df_ancho.index[n] * 60)
        IN Cardinality(idx) >= 2
             => IsMaxOf(df_ancho.cols[metrics_map_get(v)][n], df, idx)

\* The positions of the readings of table t in the group of row r.
GroupOf(t, r) == {i \in DOMAIN t : GroupKey(t[i]) = GroupKey(r)}

\* Position i holds the most recent reading among the positions idx of t:
\* greatest ts_utc, ties broken by greatest ingesta_id.
IsLatest(t, idx, i) ==
    /\ i \in idx
    /\ \A j \in idx :
         \/ t[j].ts_utc < t[i].ts_utc
         \/ t[j].ts_utc = t[i].ts_utc /\ t[j].ingesta_id <= t[i].ingesta_id

\* The tables that hold the rows of t in another order.
Reordered(t) ==
    {[i \in DOMAIN t |-> t[f[i]]] : f \in Permutations(DOMAIN t)}

\* C15: for every non-accumulative group the collapsed value is the value
\* of the most recent reading, whatever it is; the result has one row per
\* (context, slot, variable) and does not depend on the input's row order.
C15_CollapseTakesLatestReading ==
    pc = "construir_dataset_ancho_sin_imputar" =>
      /\ \A n \in DOMAIN df_collapsed :
           df_collapsed[n].variable \notin ACCUMULATIVE_VARS =>
             \A i \in GroupOf(df_slots, df_collapsed[n]) :
               IsLatest(df_slots, GroupOf(df_slots, df_collapsed[n]), i)
                 => df_collapsed[n].valor = to_numeric(df_slots[i].valor)
      /\ \A i \in DOMAIN df_slots :
           Cardinality({n \in DOMAIN df_collapsed :
                          GroupKey(df_collapsed[n]) = GroupKey(df_slots[i])}) = 1
      /\ \A n \in DOMAIN df_collapsed : GroupOf(df_slots, df_collapsed[n]) # {}
      /\ \A p \in Reordered(df_slots) :
           collapse_by_slot_and_variable(p) = df_collapsed

\* The part of C15 that holds: the collapsed value is that of the most
\* recent non-missing reading (missing when the group has none), with one
\* row per group whatever the row order.
C15_CollapseTakesLatestNonMissing ==
    pc = "construir_dataset_ancho_sin_imputar" =>
      /\ \A n \in DOMAIN df_collapsed :
           LET grp == GroupOf(df_slots, df_collapsed[n])
               valid == {i \in grp : notna(to_numeric(df_slots[i].valor))}
           IN /\ valid = {} => isna(df_collapsed[n].valor)
              /\ \A i \in valid :
                   IsLatest(df_slots, valid, i)
                     => df_collapsed[n].valor = to_numeric(df_slots[i].valor)
      /\ \A i \in DOMAIN df_slots :
           Cardinality({n \in DOMAIN df_collapsed :
                          GroupKey(df_collapsed[n]) = GroupKey(df_slots[i])}) = 1
      /\ \A p \in Reordered(df_slots) :
           collapse_by_slot_and_variable(p) = df_collapsed

\* The distance in seconds from timestamp t to the nearest multiple of FREQ.
DistToGrid(t) ==
    IF (t % FREQ) <= FREQ - (t % FREQ) THEN t % FREQ ELSE FREQ - (t % FREQ)

\* The rows of df_slots that come from the input row r.
SlotRowsOf(r) == {n \in DOMAIN df_slots : df_slots[n].ingesta_id = r.ingesta_id}

\* C16 (states): every returned reading carries the nearest multiple of
\* freq as ts_slot and its own timestamp, variable and value; a reading of
\* the input is returned, once, if and only if its distance to the slot is
\* at most jitter_max_seconds.
C16_SlotsWithinJitter ==
    pc = "assign_time_slots" =>
      /\ \A n \in DOMAIN df_slots :
           /\ df_slots[n].ts_slot % FREQ = 0
           /\ abs(df_slots[n].ts_utc - df_slots[n].ts_slot)
                = DistToGrid(df_slots[n].ts_utc)
           /\ \E i \in DOMAIN df :
                /\ df[i].ingesta_id = df_slots[n].ingesta_id
                /\ df[i].ts_utc = df_slots[n].ts_utc
                /\ df[i].variable = df_slots[n].variable
                /\ df[i].valor = df_slots[n].valor
      /\ \A i \in DOMAIN df :
           IF DistToGrid(df[i].ts_utc) <= jitter_max_seconds
           THEN Cardinality(SlotRowsOf(df[i])) = 1
           ELSE SlotRowsOf(df[i]) = {}

\* C16: assign_time_slots returns exactly the readings within the jitter
\* tolerance, each with its nearest slot, and leaves the input table as it
\* was.
C16_AssignTimeSlots ==
    /\ [](C16_SlotsWithinJitter)
    /\ [][pc' = "assign_time_slots" => df' = df]_vars

\* Witness of C16: with a tolerance of 60 s a reading 60 s from its slot was
\* kept and a reading 61 s from its slot was left out.
C16_Witness ==
    /\ pc = "assign_time_slots"
    /\ jitter_max_seconds = 60
    /\ \E i, j \in DOMAIN df :
         /\ DistToGrid(df[i].ts_utc) = 60 /\ SlotRowsOf(df[i]) # {}
         /\ DistToGrid(df[j].ts_utc) = 61 /\ SlotRowsOf(df[j]) = {}

\* The long rows of the cell (slot n, column c) of the imputed table.
LongRowsOf(n, c) ==
    {k \in DOMAIN df_long :
        df_long[k].ts_slot = df_imputed.index[n] /\ df_long[k].variable_canonica = c}

\* One long row per cell, with the cell's value and code.
OneRowPerCell ==
    /\ Len(df_long) = Len(df_imputed.index) * Cardinality(DOMAIN df_imputed.cols)
    /\ \A n \in DOMAIN df_imputed.index, c \in DOMAIN df_imputed.cols :
         /\ Cardinality(LongRowsOf(n, c)) = 1
         /\ \A k \in LongRowsOf(n, c) :
              /\ df_long[k].valor = df_imputed.cols[c][n]
              /\ df_long[k].processing_code = codes_wide.cols[c][n]

\* C17: the unpivot of the imputed table has one row per (slot, column)
\* cell with that cell's value and code; every row carries the original
\* name of the variable its column came from; the (slot, variable, value)
\* triples of the cells with code 0 are those of the collapsed table.
C17_RoundTrip ==
    pc = "dataset_ancho_a_largo_con_codigos" =>
      /\ OneRowPerCell
      /\ \A k \in DOMAIN df_long :
           \E i \in DOMAIN df_collapsed :
             /\ map_METRICS_MAP(df_collapsed[i].variable) = df_long[k].variable_canonica
             /\ df_collapsed[i].variable = df_long[k].variable
      /\ {<<df_long[k].ts_slot * 60, df_long[k].variable, df_long[k].valor>> :
            k \in {j \in DOMAIN df_long : df_long[j].processing_code = 0}}
         = {<<df_collapsed[i].ts_slot, df_collapsed[i].variable, df_collapsed[i].valor>> :
            i \in {j \in DOMAIN df_collapsed : notna(df_collapsed[j].valor)}}

\* The part of C17 that holds: one row per cell, and the name and the
\* triples of the variables that are keys of METRICS_MAP.
C17_RoundTripOfMappedVariables ==
    pc = "dataset_ancho_a_largo_con_codigos" =>
      /\ OneRowPerCell
      /\ \A k \in DOMAIN df_long :
           df_long[k].variable_canonica # nan_label =>
             \E i \in DOMAIN df_collapsed :
               /\ map_METRICS_MAP(df_collapsed[i].variable) = df_long[k].variable_canonica
               /\ df_collapsed[i].variable = df_long[k].variable
      /\ {<<df_long[k].ts_slot * 60, df_long[k].variable, df_long[k].valor>> :
            k \in {j \in DOMAIN df_long :
                     /\ df_long[j].processing_code = 0
                     /\ df_long[j].variable_canonica # nan_label}}
         = {<<df_collapsed[i].ts_slot, df_collapsed[i].variable, df_collapsed[i].valor>> :
            i \in {j \in DOMAIN df_collapsed :
                     /\ notna(df_collapsed[j].valor)
                     /\ map_METRICS_MAP(df_collapsed[j].variable) # nan_label}}

\* C18: a categorical value that is present but is not a number (a
\* non-numeric string) is flagged is_invalid_category and gets code 4, never
\* 1 (missing) nor 0 (OK), in limpiar_por_variable and in
\* limpiar_por_variable_deteccion.
C18_CoercionFailureIsInvalidCategory ==
    Cleaned =>
      \A i \in DOMAIN df_limpio :
         (/\ df_limpio[i].variable \in CATEGORICAL_VARS
          /\ InputRow(df_limpio[i]).valor = Bad)
           => /\ df_limpio[i].is_invalid_category
              /\ df_limpio[i].quality_code = 4

\* What the two cleaners do with such a value: neither flags it;
\* limpiar_por_variable resolves it to 0 (2 on a gap row) and
\* limpiar_por_variable_deteccion to 1 (2 on a gap row).
C18_CoercionFailureIsOkOrMissing ==
    Cleaned =>
      \A i \in DOMAIN df_limpio :
         (/\ df_limpio[i].variable \in CATEGORICAL_VARS
          /\ InputRow(df_limpio[i]).valor = Bad)
           => /\ ~df_limpio[i].is_invalid_category
              /\ df_limpio[i].quality_code =
                   (IF df_limpio[i].is_gap THEN 2
                    ELSE IF pc = "limpiar_por_variable" THEN 0 ELSE 1)

----------------------------------------------------------------------------
(* Quality codes and their labels: src/pipeline_v2/conf.py (the table of   *)
(* src/pipeline/conf.py has the same keys).  Accents are dropped.          *)

QUALITY_LABELS ==
    (0 :> "OK") @@ (1 :> "Valor faltante") @@ (2 :> "Gap temporal")
    @@ (3 :> "Valor extremo") @@ (4 :> "Categoria invalida")
    @@ (5 :> "Valor imposible") @@ (6 :> "Error de integridad en contador")
    @@ (9 :> "Error desconocido")

\* C19: the quality codes form a closed table: every code a resolver
\* assigns to a row is a key of QUALITY_LABELS.
C19_AssignedCodesHaveLabels ==
    pc = "assign_final_quality_code" => quality_code \in DOMAIN QUALITY_LABELS

\* The half of C19 that holds: every code compute_quality_code assigns in
\* the cleaners is a key of QUALITY_LABELS.
C19_ComputeQualityCodeHasLabels ==
    Cleaned =>
      \A i \in DOMAIN df_limpio :
         df_limpio[i].quality_code \in DOMAIN QUALITY_LABELS

\* C20 (states): the values and the codes returned by imputar_dataset_ancho
\* have the slots and the columns of the input; every cell that was not
\* missing keeps its value and has code 0.
C20_NonMissingCellsUntouched ==
    pc = "imputar_dataset_ancho" =>
      /\ df_imputed.index = df_wide.index
      /\ codes_wide.index = df_wide.index
      /\ DOMAIN df_imputed.cols = DOMAIN df_wide.cols
      /\ DOMAIN codes_wide.cols = DOMAIN df_wide.cols
      /\ \A c \in DOMAIN df_wide.cols :
           /\ DOMAIN df_imputed.cols[c] = DOMAIN df_wide.cols[c]
           /\ DOMAIN codes_wide.cols[c] = DOMAIN df_wide.cols[c]
           /\ \A i \in DOMAIN df_wide.cols[c] :
                notna(df_wide.cols[c][i]) =>
                  /\ df_imputed.cols[c][i] = df_wide.cols[c][i]
                  /\ codes_wide.cols[c][i] = 0

\* C20: imputar_dataset_ancho changes only missing cells, returns tables of
\* the input's shape and does not modify the input table.
C20_OnlyMissingCellsChange ==
    /\ [](C20_NonMissingCellsUntouched)
    /\ [][pc' = "imputar_dataset_ancho" => df_wide' = df_wide]_vars

\* Witness of C20: a column with values on both sides of a missing cell was
\* imputed: the missing cell was filled and the values kept code 0.
C20_Witness ==
    /\ pc = "imputar_dataset_ancho"
    /\ \E c \in DOMAIN df_wide.cols :
         \E i, j, k \in DOMAIN df_wide.cols[c] :
           /\ i < j /\ j < k
           /\ notna(df_wide.cols[c][i]) /\ codes_wide.cols[c][i] = 0
           /\ isna(df_wide.cols[c][j]) /\ notna(df_imputed.cols[c][j])
           /\ notna(df_wide.cols[c][k]) /\ codes_wide.cols[c][k] = 0

----------------------------------------------------------------------------
(* Structural checks of the table transforms: what each entry point does   *)
(* with a table that has no rows or lacks a column it needs.               *)

\* FLAG_AS_MISSING_COLS of src/pipeline/cleaning.py.
FLAG_AS_MISSING_COLS ==
    <<"is_invalid_physical", "is_invalid_category", "is_invalid_monotonic",
      "is_outlier", "is_missing">>

\* mask_severa built from every flag column of the row, the warning flags
\* is_high, is_gap and is_small_delta included.
mask_severa_any_flag(r) ==
    \/ \E n \in DOMAIN FLAG_AS_MISSING_COLS : Flag(r, FLAG_AS_MISSING_COLS[n])
    \/ Flag(r, "is_high") \/ Flag(r, "is_gap") \/ Flag(r, "is_small_delta")

\* mask_severa of aplicar_flags_a_nan on one row: some flag column of
\* FLAG_AS_MISSING_COLS exists and is true.
mask_severa(r) ==
    \E n \in DOMAIN FLAG_AS_MISSING_COLS : Flag(r, FLAG_AS_MISSING_COLS[n])

\* aplicar_flags_a_nan after its structural checks, on a table that has at
\* least one of the flag columns: valor of the masked rows becomes pd.NA.
aplicar_flags_a_nan(t) ==
    IF t = <<>> THEN t
    ELSE [i \in DOMAIN t |->
            IF mask_severa(t[i]) THEN WithCols(t[i], [valor |-> NaN])
            ELSE t[i]]

\* The exception each entry point raises for a table t with the column
\* labels cols, "" when it raises none.  An empty table is returned as a
\* copy before any column is looked at, except by
\* preparar_estructura_temporal.
preparar_estructura_temporal_raises(t, cols) ==
    IF t = <<>> THEN "ValueError"
    ELSE IF "ts_utc" \notin cols THEN "ValueError"
    ELSE ""

\* groupby(key_cols) raises KeyError for a key column that does not exist.
limpiar_y_marcar_duplicados_ingestas_raises(t, cols) ==
    IF t = <<>> THEN ""
    ELSE IF "valor" \notin cols THEN "ValueError"
    ELSE IF {"asset_codigo", "motor_codigo", "ts_utc", "variable"} \ cols # {}
         THEN "KeyError"
    ELSE ""

aplicar_flags_a_nan_raises(t, cols) ==
    IF t = <<>> THEN ""
    ELSE IF "valor" \notin cols THEN "ValueError"
    ELSE ""

assign_time_slots_raises(t, cols) ==
    IF t = <<>> THEN ""
    ELSE IF "ts_utc" \notin cols THEN "ValueError"
    ELSE ""

aplicar_mapeo_canonico_raises(t, cols) ==
    IF t = <<>> THEN ""
    ELSE IF "variable" \notin cols THEN "ValueError"
    ELSE ""

\* DataFrame.pivot raises ValueError too, on duplicate entries.
pivotar_estado_activo_raises(t, cols) ==
    IF t = <<>> THEN ""
    ELSE IF {"ts_slot", "variable_canonica", "valor"} \ cols # {}
         THEN "ValueError"
    ELSE IF pivot_has_duplicates(t) THEN "ValueError"
    ELSE ""

\* Bound of the tables of the structural checks.
MaxStructRows == 2

\* The columns the entry points test for, and the columns every table has.
StructuralColumns ==
    {"ts_utc", "variable", "valor", "ts_slot", "variable_canonica"}
ContextColumns ==
    {"asset_codigo", "motor_codigo", "despliegue_id", "ingesta_id",
     "is_missing"}

StructRow(n) ==
    [asset_codigo |-> "A1", motor_codigo |-> "M1", despliegue_id |-> 1,
     ingesta_id |-> n, is_missing |-> FALSE,
     ts_utc |-> 900 * (n - 1), variable |-> "Speed", valor |-> Num(n),
     ts_slot |-> 900 * (n - 1), variable_canonica |-> "speed"]

StructTable(cols, n) ==
    [i \in 1..n |-> [c \in cols \cup ContextColumns |-> StructRow(i)[c]]]

InitStructural ==
    /\ pc = "structural"
    /\ \E cols \in SUBSET StructuralColumns, n \in 0..MaxStructRows :
         /\ df_columns = cols \cup ContextColumns
         /\ df = StructTable(cols, n)
    /\ llamada = Null /\ retorno = Null
    /\ row = Null /\ quality_code = Null
    /\ df_sorted = Null /\ df_gaps = Null /\ df_with_flags = Null
    /\ df_limpio = Null /\ stats_vib = Null /\ df_limpio_nan = Null
    /\ df_out = Null /\ resumen = Null /\ df_out_1 = Null
    /\ df_wide = Null /\ max_gap_steps = Null
    /\ df_imputed = Null /\ codes_wide = Null
    /\ serie = Null /\ serie_metodo = Null
    /\ serie_out = Null /\ serie_codes = Null
    /\ jitter_max_seconds = Null /\ df_slots = Null /\ df_collapsed = Null
    /\ df_long = Null /\ df_ancho = Null
    /\ NoDespliegue /\ NoRetry /\ NoV2

\* What a structural action leaves alone.
StructuralFrame ==
    UNCHANGED <<df, df_columns, df_limpio_nan, vars_resolver, vars_temporal,
                vars_cleaning, vars_dedup, vars_imputation, vars_sync,
                vars_despliegue, vars_retry, vars_v2>>

LlamarPrepararEstructuraTemporal ==
    /\ pc = "structural"
    /\ llamada' = "preparar_estructura_temporal"
    /\ IF preparar_estructura_temporal_raises(df, df_columns) # ""
       THEN /\ pc' = preparar_estructura_temporal_raises(df, df_columns)
            /\ retorno' = retorno
       ELSE /\ pc' = "returned"
            /\ retorno' = sort_values(df)
    /\ StructuralFrame

LlamarLimpiarDuplicados ==
    /\ pc = "structural"
    /\ llamada' = "limpiar_y_marcar_duplicados_ingestas"
    /\ IF limpiar_y_marcar_duplicados_ingestas_raises(df, df_columns) # ""
       THEN /\ pc' = limpiar_y_marcar_duplicados_ingestas_raises(df, df_columns)
            /\ retorno' = retorno
       ELSE /\ pc' = "returned"
            /\ retorno' = limpiar_y_marcar_duplicados_ingestas(df).df_out
    /\ StructuralFrame

LlamarAplicarFlagsANan ==
    /\ pc = "structural"
    /\ llamada' = "aplicar_flags_a_nan"
    /\ IF aplicar_flags_a_nan_raises(df, df_columns) # ""
       THEN /\ pc' = aplicar_flags_a_nan_raises(df, df_columns)
            /\ retorno' = retorno
       ELSE /\ pc' = "returned"
            /\ retorno' = aplicar_flags_a_nan(df)
    /\ StructuralFrame

LlamarAssignTimeSlots ==
    /\ pc = "structural"
    /\ llamada' = "assign_time_slots"
    /\ IF assign_time_slots_raises(df, df_columns) # ""
       THEN /\ pc' = assign_time_slots_raises(df, df_columns)
            /\ retorno' = retorno
       ELSE /\ pc' = "returned"
            /\ retorno' = assign_time_slots(df, FREQ, 60)
    /\ StructuralFrame

LlamarAplicarMapeoCanonico ==
    /\ pc = "structural"
    /\ llamada' = "aplicar_mapeo_canonico"
    /\ IF aplicar_mapeo_canonico_raises(df, df_columns) # ""
       THEN /\ pc' = aplicar_mapeo_canonico_raises(df, df_columns)
            /\ retorno' = retorno
       ELSE /\ pc' = "returned"
            /\ retorno' = aplicar_mapeo_canonico(df)
    /\ StructuralFrame

\* The pivoted table (its slots and its columns) is kept as a one-element
\* list, so that every value of `retorno` is a list.
LlamarPivotarEstadoActivo ==
    /\ pc = "structural"
    /\ llamada' = "pivotar_estado_activo"
    /\ IF pivotar_estado_activo_raises(df, df_columns) # ""
       THEN /\ pc' = pivotar_estado_activo_raises(df, df_columns)
            /\ retorno' = retorno
       ELSE /\ pc' = "returned"
            /\ retorno' = IF df = <<>> THEN df
                          ELSE <<pivotar_estado_activo(df)>>
    /\ StructuralFrame

NextStructural ==
    \/ LlamarPrepararEstructuraTemporal
    \/ LlamarLimpiarDuplicados
    \/ LlamarAplicarFlagsANan
    \/ LlamarAssignTimeSlots
    \/ LlamarAplicarMapeoCanonico
    \/ LlamarPivotarEstadoActivo

SpecStructural == InitStructural /\ [][NextStructural]_vars

\* The columns an entry point requires, as the design lists them.
RequiredColumns(f) ==
    CASE f = "preparar_estructura_temporal" -> {"ts_utc"}
      [] f = "limpiar_y_marcar_duplicados_ingestas" -> {"valor"}
      [] f = "aplicar_flags_a_nan" -> {"valor"}
      [] f = "assign_time_slots" -> {"ts_utc"}
      [] f = "aplicar_mapeo_canonico" -> {"variable"}
      [] f = "pivotar_estado_activo" -> {"ts_slot", "variable_canonica", "valor"}

Raised == pc \in {"ValueError", "KeyError"}

\* C21: structural errors are fatal.  Once an entry point was called on a
\* table that lacks a column it requires, or preparar_estructura_temporal
\* was called on a table without rows, the call has raised an error and
\* returned no table.
C21_StructuralErrorsAreFatal ==
    pc \in {"returned", "ValueError", "KeyError"} =>
        /\ (RequiredColumns(llamada) \ df_columns # {}) => Raised
        /\ (llamada = "preparar_estructura_temporal" /\ df = <<>>) => Raised

\* The same for the tables that have at least one row.
C21_StructuralErrorsAreFatalWithRows ==
    (pc \in {"returned", "ValueError", "KeyError"} /\ df # <<>>) =>
        ((RequiredColumns(llamada) \ df_columns # {}) => Raised)

----------------------------------------------------------------------------
(* Deployment loader: src/pipeline/despliegue.py, cargar_datos_despliegue  *)
(* One action per request to the API, each with the local code that        *)
(* follows it up to the next request.                                      *)

\* Bound of the ingestion payload.
MaxIngestaRows == 2

\* The HTTP status the API may answer a GET with.
GetStatus == {200, 500}

\* The deployment record the API holds for the requested id: `listed` says
\* whether the list request (limit 10) shows it; fin is None while the
\* deployment is open.
Despliegues ==
    [despliegue_id : {1}, listed : BOOLEAN, asset_id : {1, 2},
     motor_id : {1, 2}, inicio : {Num(0), Num(900)},
     fin : {None, Num(1800)}]

\* The test of lines 119-122 left out.
cargar_datos_despliegue_raises_never(d) == ""

\* Lines 119-122 of cargar_datos_despliegue: fin stays None for a record
\* with fin = null, and then ValueError is raised.
cargar_datos_despliegue_raises(d) ==
    IF d.fin = None THEN "ValueError" ELSE ""

\* The ingestion rows of the payload, and the table returned for them:
\* despliegue_id is added unless the table is empty.
IngestaItems(n) ==
    [i \in 1..n |-> [ts_utc |-> 900 * (i - 1), variable |-> "Speed",
                     valor |-> Num(i)]]

with_despliegue_id(t, despliegue_id) ==
    IF t = <<>> THEN t
    ELSE [i \in DOMAIN t |-> WithCols(t[i], [despliegue_id |-> despliegue_id])]

InitDespliegue ==
    /\ pc = "loader"
    /\ despliegue \in Despliegues
    /\ peticiones = <<>>
    /\ retorno = Null
    /\ df = Null /\ df_columns = Null /\ llamada = Null
    /\ row = Null /\ quality_code = Null
    /\ df_sorted = Null /\ df_gaps = Null /\ df_with_flags = Null
    /\ df_limpio = Null /\ stats_vib = Null /\ df_limpio_nan = Null
    /\ df_out = Null /\ resumen = Null /\ df_out_1 = Null
    /\ df_wide = Null /\ max_gap_steps = Null
    /\ df_imputed = Null /\ codes_wide = Null
    /\ serie = Null /\ serie_metodo = Null
    /\ serie_out = Null /\ serie_codes = Null
    /\ jitter_max_seconds = Null /\ df_slots = Null /\ df_collapsed = Null
    /\ df_long = Null /\ df_ancho = Null
    /\ NoRetry /\ NoV2

\* What a loader action leaves alone.
DespliegueFrame ==
    UNCHANGED <<df, despliegue, df_columns, llamada, df_limpio_nan,
                vars_resolver, vars_temporal, vars_cleaning, vars_dedup,
                vars_imputation, vars_sync, vars_retry, vars_v2>>

\* get_despliegue_by_id, then lines 116-122: raise_for_status on a status
\* other than 200, ValueError when the id is not in the list, ValueError
\* when fin is null.
GetDespliegueById ==
    /\ pc = "loader"
    /\ \E status \in GetStatus :
         /\ peticiones' = Append(peticiones,
                              [url |-> "despliegues", status |-> status])
         /\ pc' = IF status # 200 THEN "HTTPError"
                  ELSE IF ~despliegue.listed THEN "ValueError"
                  ELSE IF cargar_datos_despliegue_raises(despliegue) # ""
                       THEN cargar_datos_despliegue_raises(despliegue)
                  ELSE "get_despliegue_by_id"
    /\ retorno' = retorno
    /\ DespliegueFrame

GetAssetCodigo ==
    /\ pc = "get_despliegue_by_id"
    /\ \E status \in GetStatus :
         /\ peticiones' = Append(peticiones,
                              [url |-> "assets", status |-> status])
         /\ pc' = IF status # 200 THEN "HTTPError" ELSE "get_asset_codigo"
    /\ retorno' = retorno
    /\ DespliegueFrame

GetMotorCodigo ==
    /\ pc = "get_asset_codigo"
    /\ \E status \in GetStatus :
         /\ peticiones' = Append(peticiones,
                              [url |-> "motores", status |-> status])
         /\ pc' = IF status # 200 THEN "HTTPError" ELSE "get_motor_codigo"
    /\ retorno' = retorno
    /\ DespliegueFrame

\* load_via_by_asset_motor, then lines 137-140.
LoadViaByAssetMotor ==
    /\ pc = "get_motor_codigo"
    /\ \E status \in GetStatus, n \in 0..MaxIngestaRows :
         /\ peticiones' = Append(peticiones,
                              [url |-> "ingestas/by-asset-motor",
                               status |-> status])
         /\ IF status # 200
            THEN /\ pc' = "HTTPError"
                 /\ retorno' = retorno
            ELSE /\ pc' = "cargar_datos_despliegue"
                 /\ retorno' = with_despliegue_id(IngestaItems(n),
                                                  despliegue.despliegue_id)
    /\ DespliegueFrame

NextDespliegue ==
    \/ GetDespliegueById
    \/ GetAssetCodigo
    \/ GetMotorCodigo
    \/ LoadViaByAssetMotor

SpecDespliegue == InitDespliegue /\ [][NextDespliegue]_vars

\* The list request was answered with the record of the deployment.
DespliegueObtained ==
    /\ peticiones # <<>>
    /\ peticiones[1].status = 200
    /\ despliegue.listed

\* C22: an open-ended deployment is rejected.  Once the record of the
\* deployment was obtained with fin = null, the loader has raised
\* ValueError, the only request issued is the one for the list of
\* deployments, and no measurement table was returned.
C22_OpenEndedDeploymentRejected ==
    (DespliegueObtained /\ despliegue.fin = None) =>
        /\ pc = "ValueError"
        /\ Len(peticiones) = 1
        /\ retorno = <<>>

C22_Witness ==
    /\ DespliegueObtained
    /\ despliegue.fin = None
    /\ pc = "ValueError"

----------------------------------------------------------------------------
(* Transport of the quality results: src/pipeline/load_quality.py,         *)
(* post_with_retry.  One action per POST attempt and one per wait.         *)

MAX_RETRIES == 5

\* What one session.post can end in: a response with a status code, or an
\* exception.  ConnectTimeout is a ConnectionError; any other exception of
\* requests is not caught by post_with_retry.
PostOutcomes ==
    [kind : {"response"}, status_code : {200, 201, 409, 500, 503}]
    \cup [kind : {"ReadTimeout", "ConnectionError", "RequestException"},
          status_code : {0}]

\* The 409 answer treated as one more HTTP error.
post_ok_without_409(outcome) ==
    outcome.kind = "response" /\ outcome.status_code \in {200, 201}

\* Lines 32-38: the responses post_with_retry returns (True, status) for.
post_ok(outcome) ==
    outcome.kind = "response" /\ outcome.status_code \in {200, 201, 409}

\* Lines 40-45: the outcomes after which the loop goes on to the wait.
post_retried(outcome) ==
    ~post_ok(outcome) /\ outcome.kind # "RequestException"

InitRetry ==
    /\ pc = "post_with_retry"
    /\ attempt = 1
    /\ status_codes = <<>>
    /\ sleeps = <<>>
    /\ post_result = Null
    /\ df = Null /\ retorno = Null /\ df_columns = Null /\ llamada = Null
    /\ row = Null /\ quality_code = Null
    /\ df_sorted = Null /\ df_gaps = Null /\ df_with_flags = Null
    /\ df_limpio = Null /\ stats_vib = Null /\ df_limpio_nan = Null
    /\ df_out = Null /\ resumen = Null /\ df_out_1 = Null
    /\ df_wide = Null /\ max_gap_steps = Null
    /\ df_imputed = Null /\ codes_wide = Null
    /\ serie = Null /\ serie_metodo = Null
    /\ serie_out = Null /\ serie_codes = Null
    /\ jitter_max_seconds = Null /\ df_slots = Null /\ df_collapsed = Null
    /\ df_long = Null /\ df_ancho = Null
    /\ NoDespliegue /\ NoV2

\* What a transport action leaves alone.
RetryFrame ==
    UNCHANGED <<df, df_limpio_nan, vars_resolver, vars_temporal,
                vars_cleaning, vars_dedup, vars_imputation, vars_sync,
                vars_structural, vars_despliegue, vars_v2>>

\* One pass through the try block of the loop (lines 22-45).
Post ==
    /\ pc = "post_with_retry"
    /\ \E outcome \in PostOutcomes :
         /\ status_codes' = Append(status_codes, outcome)
         /\ IF post_ok(outcome)
            THEN /\ post_result' = [ok |-> TRUE, status |-> outcome.status_code]
                 /\ pc' = "returned"
            ELSE IF post_retried(outcome)
            THEN /\ post_result' = post_result
                 /\ pc' = "sleep"
            ELSE /\ post_result' = post_result
                 /\ pc' = "raised"
    /\ UNCHANGED <<attempt, sleeps>>
    /\ RetryFrame

\* Lines 47-54: the wait, then the next attempt, or (False, None) when the
\* range of attempts is exhausted.
Sleep ==
    /\ pc = "sleep"
    /\ sleeps' = Append(sleeps, 2 * attempt)
    /\ IF attempt < MAX_RETRIES
       THEN /\ attempt' = attempt + 1
            /\ post_result' = post_result
            /\ pc' = "post_with_retry"
       ELSE /\ attempt' = attempt
            /\ post_result' = [ok |-> FALSE, status |-> None]
            /\ pc' = "returned"
    /\ UNCHANGED status_codes
    /\ RetryFrame

NextRetry == Post \/ Sleep

\* Every attempt ends: session.post has a connect and a read timeout
\* (TIMEOUT) and time.sleep returns.
SpecRetry == InitRetry /\ [][NextRetry]_vars /\ WF_vars(NextRetry)

RetryTerminated == pc \in {"returned", "raised"}

\* The safety part of C23, on every state of a call.
C23_BoundedRetryState ==
    /\ Len(status_codes) <= MAX_RETRIES
    \* it stops at the first 200, 201 or 409 and returns it as a success
    /\ \A i \in DOMAIN status_codes :
          status_codes[i].status_code \in {200, 201, 409} =>
             /\ i = Len(status_codes)
             /\ pc = "returned"
             /\ post_result.ok
             /\ post_result.status = status_codes[i].status_code
    \* the wait after the i-th failed attempt is 2 * i seconds, and every
    \* attempt but the first follows such a wait
    /\ \A i \in DOMAIN sleeps : sleeps[i] = 2 * i
    /\ pc = "post_with_retry" => Len(sleeps) = Len(status_codes)
    /\ pc = "sleep" => Len(sleeps) = Len(status_codes) - 1
    \* a failure is returned only after MAX_RETRIES failed attempts
    /\ (pc = "returned" /\ ~post_result.ok) =>
          /\ Len(status_codes) = MAX_RETRIES
          /\ post_result.status = None
          /\ \A i \in DOMAIN status_codes :
                status_codes[i].status_code \notin {200, 201, 409}

\* C23: post_with_retry is a bounded retry.  At most MAX_RETRIES POSTs; the
\* first 200, 201 or 409 ends the call with (True, status); any other
\* status, a read timeout or a connection error is followed by a wait of
\* 2 * attempt seconds and the next attempt; (False, None) is returned only
\* after MAX_RETRIES failed attempts; and the call always terminates.
C23_BoundedRetry == [](C23_BoundedRetryState) /\ <>(RetryTerminated)

\* A duplicate (409) on the third attempt, after two retried failures.
C23_Witness ==
    /\ pc = "returned"
    /\ Len(status_codes) = 3
    /\ status_codes[3].status_code = 409
    /\ post_result.ok

\* All attempts failed.
C23_WitnessExhausted ==
    /\ pc = "returned"
    /\ Len(status_codes) = MAX_RETRIES
    /\ Len(sleeps) = MAX_RETRIES
    /\ ~post_result.ok

----------------------------------------------------------------------------
(* Sequential detectors of pipeline_v2: mark_sequential_anomalies          *)
(* (src/pipeline_v2/cleaning.py), on a table whose valor is numeric.       *)

STUCK_WINDOW_N == 8
NOISE_WINDOW_N == 4

\* MAX_JUMP_THRESHOLD, in the units of the values.
MAX_JUMP_THRESHOLD ==
    [v \in {"Skin Temperature", "Motor Supply Frequency", "Speed",
            "Output Power", "Overall Vibration", "Vibration (Tangential)",
            "Vibration (Radial)", "Vibration (Axial)",
            "Peak to Peak (Tangential)", "Peak to Peak (Radial)",
            "Peak to Peak (Axial)", "Peak to Peak",
            "Acceleration RMS (Tangential)", "Acceleration RMS (Radial)",
            "Acceleration RMS (Axial)"} |->
        CASE v \in {"Skin Temperature", "Motor Supply Frequency"} -> 10 * Scale
          [] v = "Speed" -> 1800 * Scale
          [] v = "Output Power" -> 260 * Scale
          [] v \in {"Peak to Peak (Tangential)", "Peak to Peak (Radial)",
                    "Peak to Peak (Axial)", "Peak to Peak"} -> 5 * Scale
          [] OTHER -> 2 * Scale]

\* df_var["valor"]: the values of one variable, in table order.
SeriesOf(t, var) ==
    LET rows == SelectSeq(t, LAMBDA r : r.variable = var)
    IN [n \in DOMAIN rows |-> rows[n].valor]

\* The position of row i of the table in the series of its variable.
PosInSeries(t, i) ==
    Cardinality({j \in DOMAIN t : j <= i /\ t[j].variable = t[i].variable})

\* The values of the sequential inputs are multiples of 1/4; the rolling
\* statistics are computed on them in quarters.
SeqUnit == Scale \div 4

RECURSIVE SumQ(_, _, _)
SumQ(s, from, to) ==
    IF from > to THEN 0 ELSE (s[from].x \div SeqUnit) + SumQ(s, from + 1, to)

RECURSIVE SumSqQ(_, _, _)
SumSqQ(s, from, to) ==
    IF from > to THEN 0
    ELSE (s[from].x \div SeqUnit) * (s[from].x \div SeqUnit)
         + SumSqQ(s, from + 1, to)

\* rolling(window=n, min_periods=n): the window ending at k is complete and
\* has no missing value.
RollingDefined(s, k, n) ==
    k >= n /\ \A j \in (k - n + 1)..k : notna(s[j])

\* n * (n - 1) times the sample variance (ddof = 1) of the window of n
\* values ending at k, in squared quarters.
RollingVarNum(s, k, n) ==
    n * SumSqQ(s, k - n + 1, k)
    - SumQ(s, k - n + 1, k) * SumQ(s, k - n + 1, k)

\* series.diff().abs() > jump_threshold.
is_excessive_jump(s, k, jump_threshold) ==
    /\ k > 1
    /\ notna(s[k]) /\ notna(s[k - 1])
    /\ abs(s[k].x - s[k - 1].x) > jump_threshold

\* rolling_std < STUCK_VARIANCE_THRESHOLD (1e-6): the variance, a multiple
\* of 1 / (16 * n * (n - 1)), is below 1e-12 only when it is zero.
is_stuck(s, k) ==
    /\ RollingDefined(s, k, STUCK_WINDOW_N)
    /\ RollingVarNum(s, k, STUCK_WINDOW_N) = 0

\* is_stuck.rolling(window=STUCK_WINDOW_N).max().fillna(False): the maximum
\* of is_stuck over the window that ends at k; missing (False) while that
\* window is incomplete.
is_stuck_value(s, k) ==
    /\ k >= STUCK_WINDOW_N
    /\ \E j \in (k - STUCK_WINDOW_N + 1)..k : is_stuck(s, j)

\* rolling_noise_std > 0.5 * NOISE_STD_MULTIPLIER = 1.5: variance > 2.25,
\* that is n * (n - 1) * 36 in squared quarters.
is_excessive_noise(s, k) ==
    /\ RollingDefined(s, k, NOISE_WINDOW_N)
    /\ RollingVarNum(s, k, NOISE_WINDOW_N)
          > 36 * NOISE_WINDOW_N * (NOISE_WINDOW_N - 1)

\* mark_sequential_anomalies with the loop run over every variable of the
\* table (jump_threshold is then np.inf for a variable without an entry).
mark_sequential_anomalies_every_variable(t) ==
    [i \in DOMAIN t |->
        WithCols(t[i],
          LET s == SeriesOf(t, t[i].variable)
              k == PosInSeries(t, i)
          IN [is_stuck_value |-> is_stuck_value(s, k),
              is_excessive_jump |->
                  /\ t[i].variable \in DOMAIN MAX_JUMP_THRESHOLD
                  /\ is_excessive_jump(s, k, MAX_JUMP_THRESHOLD[t[i].variable]),
              is_excessive_noise |-> is_excessive_noise(s, k)])]

\* mark_sequential_anomalies: the three flags start False and are computed
\* for the variables that have an entry in MAX_JUMP_THRESHOLD.
mark_sequential_anomalies(t) ==
    [i \in DOMAIN t |->
        WithCols(t[i],
          IF t[i].variable \in DOMAIN MAX_JUMP_THRESHOLD
          THEN LET s == SeriesOf(t, t[i].variable)
                   k == PosInSeries(t, i)
               IN [is_stuck_value |-> is_stuck_value(s, k),
                   is_excessive_jump |->
                       is_excessive_jump(s, k, MAX_JUMP_THRESHOLD[t[i].variable]),
                   is_excessive_noise |-> is_excessive_noise(s, k)]
          ELSE [is_stuck_value |-> FALSE, is_excessive_jump |-> FALSE,
                is_excessive_noise |-> FALSE])]

\* Bound of the series given to the detectors.
MaxSeqRows == 9

\* Samples 900 s apart.
SeqTs(n) == 900 * (n - 1)

SeqValues == {Num(0), Num(3 * Scale)}
SeqVars == {"Overall Vibration", "Total Running Time"}

\* One variable, MaxSeqRows samples.
SeqTables ==
    {[n \in 1..MaxSeqRows |-> [ts_utc |-> SeqTs(n), variable |-> v,
                               valor |-> f[n]]] :
        v \in SeqVars, f \in [1..MaxSeqRows -> SeqValues]}

\* A variable of no group, with a negative and a missing value.
UnknownVar == "Total Number of Starts"
UnknownTables ==
    {[n \in 1..3 |-> [ts_utc |-> CleanTs(n + 1), variable |-> UnknownVar,
                      valor |-> f[n]]] :
        f \in [1..3 -> {Num(-Scale), Num(3 * Scale), NaN}]}

\* A vibration series with a missing sample among equal and unequal ones.
GappedTables ==
    {[n \in 1..5 |-> [ts_utc |-> SeqTs(n), variable |-> "Overall Vibration",
                      valor |-> f[n]]] :
        f \in [1..5 -> {Num(0), Num(12 * Scale), NaN}]}

DetectorRaw == SeqTables \cup UnknownTables \cup GappedTables

InitDetectors ==
    /\ pc = "cleaning"
    /\ df \in {with_temporal_flags(t) : t \in DetectorRaw}
    /\ row = Null /\ quality_code = Null
    /\ df_sorted = Null /\ df_gaps = Null /\ df_with_flags = Null
    /\ df_limpio = Null /\ stats_vib = Null /\ df_limpio_nan = Null
    /\ df_out = Null /\ resumen = Null /\ df_out_1 = Null
    /\ df_wide = Null /\ max_gap_steps = Null
    /\ df_imputed = Null /\ codes_wide = Null
    /\ serie = Null /\ serie_metodo = Null
    /\ serie_out = Null /\ serie_codes = Null
    /\ jitter_max_seconds = Null /\ df_slots = Null /\ df_collapsed = Null
    /\ df_long = Null /\ df_ancho = Null
    /\ NoStructural /\ NoDespliegue /\ NoRetry /\ NoV2

MarkSequentialAnomalies ==
    /\ pc = "cleaning"
    /\ df_proc' = mark_sequential_anomalies(df)
    /\ pc' = "mark_sequential_anomalies"
    /\ UNCHANGED <<df, df_imputado, df_limpio_nan, vars_resolver,
                   vars_temporal, vars_cleaning, vars_dedup, vars_imputation,
                   vars_sync, vars_structural, vars_despliegue, vars_retry>>

NextDetectors ==
    \/ LimpiarPorVariable
    \/ LimpiarPorVariableDeteccion
    \/ MarkSequentialAnomalies

SpecDetectors == InitDetectors /\ [][NextDetectors]_vars

\* Row i of df_proc is in a window of STUCK_WINDOW_N consecutive samples of
\* its variable whose standard deviation is below the threshold.
InStuckWindow(t, i) ==
    LET s == SeriesOf(t, t[i].variable)
        k == PosInSeries(t, i)
    IN \E e \in k..(k + STUCK_WINDOW_N - 1) : e <= Len(s) /\ is_stuck(s, e)

\* C25: the stuck detection covers the full window.  In the table returned
\* by mark_sequential_anomalies, a sample of a variable with a jump
\* threshold is flagged is_stuck_value exactly when it belongs to a window
\* of STUCK_WINDOW_N consecutive samples with a standard deviation below
\* STUCK_VARIANCE_THRESHOLD.
C25_StuckFlagCoversWindow ==
    pc = "mark_sequential_anomalies" =>
        \A i \in DOMAIN df_proc :
            df_proc[i].variable \in DOMAIN MAX_JUMP_THRESHOLD =>
                (df_proc[i].is_stuck_value <=> InStuckWindow(df_proc, i))

\* What the code does: a sample is flagged exactly when a stuck window ends
\* at it or at one of the STUCK_WINDOW_N - 1 samples before it.
C25_StuckFlagTrailsWindowEnd ==
    pc = "mark_sequential_anomalies" =>
        \A i \in DOMAIN df_proc :
            df_proc[i].variable \in DOMAIN MAX_JUMP_THRESHOLD =>
                LET s == SeriesOf(df_proc, df_proc[i].variable)
                    k == PosInSeries(df_proc, i)
                IN df_proc[i].is_stuck_value <=>
                     \E e \in 1..k : k - e < STUCK_WINDOW_N /\ is_stuck(s, e)

\* classify_variable_group (identical in pipeline and pipeline_v2).
classify_variable_group(var_name) ==
    IF var_name \in VIBRATION_VARS THEN "vibration"
    ELSE IF var_name \in PHYSICAL_VARS THEN "physical"
    ELSE IF var_name \in CATEGORICAL_VARS THEN "categorical"
    ELSE IF var_name \in ACCUMULATIVE_VARS THEN "accumulative"
    ELSE "unknown"

\* The vibration statistics give no usable IQR for the variable.
NoUsableIqr(var) ==
    var \notin DOMAIN stats_vib \/ stats_vib[var].iqr_x4 <= 0

\* C24: detectors abstain on missing configuration.  In the tables the
\* cleaners return, a vibration variable without statistics or with
\* IQR <= 0 has is_outlier and is_high false on all its rows, a categorical
\* variable without a domain has is_invalid_category false, and a variable
\* of group unknown has every group-specific flag false and the quality
\* code that is_gap and is_missing alone give; in the table
\* mark_sequential_anomalies returns, a variable without a jump threshold
\* has is_excessive_jump, is_stuck_value and is_excessive_noise false.
C24_DetectorsAbstain ==
    /\ Cleaned =>
         \A i \in DOMAIN df_limpio :
            LET r == df_limpio[i] IN
            /\ (r.variable \in VIBRATION_VARS /\ NoUsableIqr(r.variable)) =>
                  (~r.is_outlier /\ ~r.is_high)
            /\ (r.variable \in CATEGORICAL_VARS
                /\ r.variable \notin DOMAIN CATEGORICAL_DOMAINS) =>
                  ~r.is_invalid_category
            /\ classify_variable_group(r.variable) = "unknown" =>
                  /\ ~r.is_invalid_physical
                  /\ ~r.is_outlier /\ ~r.is_high
                  /\ ~r.is_invalid_category
                  /\ ~r.is_invalid_monotonic
                  /\ r.quality_code = (IF r.is_gap THEN 2
                                       ELSE IF r.is_missing THEN 1 ELSE 0)
    /\ pc = "mark_sequential_anomalies" =>
         \A i \in DOMAIN df_proc :
            df_proc[i].variable \notin DOMAIN MAX_JUMP_THRESHOLD =>
               /\ ~df_proc[i].is_excessive_jump
               /\ ~df_proc[i].is_stuck_value
               /\ ~df_proc[i].is_excessive_noise

\* A counter, which has no jump threshold, with STUCK_WINDOW_N equal
\* samples in a row and a change of 3.0 in the series.
C24_Witness ==
    /\ pc = "mark_sequential_anomalies"
    /\ df_proc[1].variable = "Total Running Time"
    /\ \E k \in DOMAIN df_proc :
          is_stuck(SeriesOf(df_proc, "Total Running Time"), k)
    /\ \E i \in DOMAIN df_proc : i > 1 /\ df_proc[i].valor # df_proc[i - 1].valor

\* A vibration variable with IQR = 0 and a sample away from the quartiles.
C24_WitnessZeroIqr ==
    /\ pc = "limpiar_por_variable"
    /\ \E i \in DOMAIN df_limpio :
          /\ df_limpio[i].variable \in VIBRATION_VARS
          /\ df_limpio[i].variable \in DOMAIN stats_vib
          /\ stats_vib[df_limpio[i].variable].iqr_x4 = 0
          /\ notna(df_limpio[i].valor)
          /\ 4 * df_limpio[i].valor.x # stats_vib[df_limpio[i].variable].q1_x4

\* A variable of group unknown with a negative sample after a gap.
C24_WitnessUnknown ==
    /\ pc = "limpiar_por_variable"
    /\ \E i \in DOMAIN df_limpio :
          /\ classify_variable_group(df_limpio[i].variable) = "unknown"
          /\ df_limpio[i].valor = Num(-Scale)
          /\ df_limpio[i].is_gap
    /\ \E i \in DOMAIN df_limpio : df_limpio[i].is_missing

----------------------------------------------------------------------------
(* Imputation of pipeline_v2: src/pipeline_v2/imputation.py,               *)
(* impute_by_group, on the uniform wide table.                             *)

IMPUTATION_LIMIT_N == 2

\* get_clean_vars: the canonical names of the raw names that are keys of
\* METRICS_MAP.
get_clean_vars(raw_vars) ==
    {map_METRICS_MAP(k) : k \in {v \in raw_vars : map_METRICS_MAP(v) # nan_label}}

vib_phys_vars == get_clean_vars(VIBRATION_VARS \cup PHYSICAL_VARS)
cat_acc_vars == get_clean_vars(CATEGORICAL_VARS \cup ACCUMULATIVE_VARS)

\* A non-missing cell lies at most limit positions before (after) position i.
ValidWithinBefore(s, i, limit) ==
    \E j \in DOMAIN s : j < i /\ i - j <= limit /\ notna(s[j])
ValidWithinAfter(s, i, limit) ==
    \E j \in DOMAIN s : j > i /\ j - i <= limit /\ notna(s[j])

\* s.interpolate(method="linear", limit=limit, limit_direction="both"): the
\* positions are equally spaced; a missing cell is filled when a value lies
\* within limit positions before it or after it, and stays missing
\* otherwise.  Between two values the cell lies on the line through them,
\* before the first value it takes the first value and after the last value
\* the last one.  The interpolated value is rounded down to the value grid.
interpolate_linear(s, limit) ==
    [i \in DOMAIN s |->
        IF notna(s[i]) THEN s[i]
        ELSE IF ~(ValidWithinBefore(s, i, limit) \/ ValidWithinAfter(s, i, limit))
             THEN NaN
        ELSE IF ~HasValidBefore(s, i) THEN s[FirstValidAfter(s, i)]
        ELSE IF ~HasValidAfter(s, i) THEN s[LastValidBefore(s, i)]
        ELSE LET p == LastValidBefore(s, i)
                 n == FirstValidAfter(s, i)
             IN Num(s[p].x + ((s[n].x - s[p].x) * (i - p)) \div (n - p))]

\* s.ffill(limit=limit): a missing cell takes the last value before it when
\* that value is at most limit positions away.
ffill_limit(s, limit) ==
    [i \in DOMAIN s |->
        IF notna(s[i]) THEN s[i]
        ELSE IF ValidWithinBefore(s, i, limit) THEN s[LastValidBefore(s, i)]
        ELSE NaN]

\* s.bfill(limit=limit): the same from the next value after the cell.
bfill_limit(s, limit) ==
    [i \in DOMAIN s |->
        IF notna(s[i]) THEN s[i]
        ELSE IF ValidWithinAfter(s, i, limit) THEN s[FirstValidAfter(s, i)]
        ELSE NaN]

\* The treatment of one column of the wide table: linear interpolation for
\* the vibration and physical columns, ffill then bfill for the categorical
\* and accumulative ones, nothing for any other column.
impute_column(c, s) ==
    IF c \in vib_phys_vars THEN interpolate_linear(s, IMPUTATION_LIMIT_N)
    ELSE IF c \in cat_acc_vars
    THEN bfill_limit(ffill_limit(s, IMPUTATION_LIMIT_N), IMPUTATION_LIMIT_N)
    ELSE s

\* impute_by_group: the imputed columns and, per column c, the column
\* c_is_imputed (here is_imputed[c]): missing before and present after.
impute_by_group(w) ==
    [index |-> w.index,
     cols |-> [c \in DOMAIN w.cols |-> impute_column(c, w.cols[c])],
     is_imputed |->
        [c \in DOMAIN w.cols |->
            [i \in DOMAIN w.cols[c] |->
                isna(w.cols[c][i]) /\ notna(impute_column(c, w.cols[c])[i])]]]

MaxAnchoSlots == 5
AnchoValues == {NaN, Num(Scale), Num(4 * Scale)}
AnchoColumns == {"skin_temp", "total_run_time", "total_num_starts"}
AnchoInputs ==
    UNION {{[index |-> SlotIndex(n), cols |-> (c :> a)] :
              c \in AnchoColumns, a \in [1..n -> AnchoValues]} :
           n \in 1..MaxAnchoSlots}

InitImputeByGroup ==
    /\ pc = "imputation_v2"
    /\ df_ancho \in AnchoInputs
    /\ df = Null /\ row = Null /\ quality_code = Null
    /\ df_sorted = Null /\ df_gaps = Null /\ df_with_flags = Null
    /\ df_limpio = Null /\ stats_vib = Null /\ df_limpio_nan = Null
    /\ df_out = Null /\ resumen = Null /\ df_out_1 = Null
    /\ df_wide = Null /\ max_gap_steps = Null
    /\ df_imputed = Null /\ codes_wide = Null
    /\ serie = Null /\ serie_metodo = Null
    /\ serie_out = Null /\ serie_codes = Null
    /\ jitter_max_seconds = Null /\ df_slots = Null /\ df_collapsed = Null
    /\ df_long = Null
    /\ NoStructural /\ NoDespliegue /\ NoRetry /\ NoV2

ImputeByGroup ==
    /\ pc = "imputation_v2"
    /\ df_imputado' = impute_by_group(df_ancho)
    /\ pc' = "impute_by_group"
    /\ UNCHANGED <<df, df_proc, df_limpio_nan, vars_resolver, vars_temporal,
                   vars_cleaning, vars_dedup, vars_imputation, vars_sync,
                   vars_structural, vars_despliegue, vars_retry>>

NextImputeByGroup == ImputeByGroup

SpecImputeByGroup == InitImputeByGroup /\ [][NextImputeByGroup]_vars

\* C26: after impute_by_group every missing cell of a run longer than
\* IMPUTATION_LIMIT_N slots is still missing with its is_imputed flag false,
\* and every missing cell of a run of at most IMPUTATION_LIMIT_N slots is
\* filled with its is_imputed flag true; no run is filled in part.
C26_GapBoundRespected ==
    pc = "impute_by_group" =>
        \A c \in DOMAIN df_ancho.cols : \A i \in DOMAIN df_ancho.cols[c] :
            isna(df_ancho.cols[c][i]) =>
                IF Cardinality(Segment(df_ancho.cols[c], i)) > IMPUTATION_LIMIT_N
                THEN /\ isna(df_imputado.cols[c][i])
                     /\ ~df_imputado.is_imputed[c][i]
                ELSE /\ notna(df_imputado.cols[c][i])
                     /\ df_imputado.is_imputed[c][i]

\* The part of C26 about long runs alone, on the imputed columns: a missing
\* cell of a run longer than IMPUTATION_LIMIT_N slots stays missing.
C26_LongRunsStayMissing ==
    pc = "impute_by_group" =>
        \A c \in DOMAIN df_ancho.cols \cap (vib_phys_vars \cup cat_acc_vars) :
            \A i \in DOMAIN df_ancho.cols[c] :
                (/\ isna(df_ancho.cols[c][i])
                 /\ Cardinality(Segment(df_ancho.cols[c], i)) > IMPUTATION_LIMIT_N)
                    => isna(df_imputado.cols[c][i])

\* What impute_by_group does: a missing cell of an imputed column is filled,
\* and flagged, exactly when a value lies within IMPUTATION_LIMIT_N
\* positions of it on either side, whatever the length of its run; present
\* cells and the columns of no group are left as they are.
C26_FilledWhenNearAValue ==
    pc = "impute_by_group" =>
        \A c \in DOMAIN df_ancho.cols : \A i \in DOMAIN df_ancho.cols[c] :
            LET s == df_ancho.cols[c]
                near == \/ ValidWithinBefore(s, i, IMPUTATION_LIMIT_N)
                        \/ ValidWithinAfter(s, i, IMPUTATION_LIMIT_N)
                filled == /\ isna(s[i])
                          /\ c \in vib_phys_vars \cup cat_acc_vars
                          /\ near
            IN /\ df_imputado.is_imputed[c][i] = filled
               /\ notna(df_imputado.cols[c][i]) = (notna(s[i]) \/ filled)
               /\ notna(s[i]) => df_imputado.cols[c][i] = s[i]

----------------------------------------------------------------------------
(* main of pipeline: limpiar_por_variable, then aplicar_flags_a_nan on its *)
(* output (src/pipeline/main.py, lines 83 and 176).                        *)

AplicarFlagsANan ==
    /\ pc = "limpiar_por_variable"
    /\ df_limpio_nan' = aplicar_flags_a_nan(df_limpio)
    /\ pc' = "aplicar_flags_a_nan"
    /\ UNCHANGED <<df, vars_resolver, vars_temporal, vars_cleaning,
                   vars_dedup, vars_imputation, vars_sync, vars_structural,
                   vars_despliegue, vars_retry, vars_v2>>

NextFlagsANan == LimpiarPorVariable \/ AplicarFlagsANan

SpecFlagsANan == InitCleaning /\ [][NextFlagsANan]_vars

\* The severe flags of the claim, by name.
SevereFlag(r) ==
    \/ Flag(r, "is_invalid_physical") \/ Flag(r, "is_invalid_category")
    \/ Flag(r, "is_invalid_monotonic") \/ Flag(r, "is_outlier")
    \/ Flag(r, "is_missing")

C27_SevereFlagsBlankValueState ==
    pc = "aplicar_flags_a_nan" =>
        /\ Len(df_limpio_nan) = Len(df_limpio)
        /\ \A i \in DOMAIN df_limpio :
              /\ isna(df_limpio_nan[i].valor) <=> SevereFlag(df_limpio[i])
              /\ ~SevereFlag(df_limpio[i])
                    => df_limpio_nan[i].valor = df_limpio[i].valor
              /\ DOMAIN df_limpio_nan[i] = DOMAIN df_limpio[i]
              /\ \A col \in DOMAIN df_limpio[i] \ {"valor"} :
                    df_limpio_nan[i][col] = df_limpio[i][col]

\* C27: aplicar_flags_a_nan makes valor missing in exactly the rows with
\* one of is_invalid_physical, is_invalid_category, is_invalid_monotonic,
\* is_outlier, is_missing true; the rows flagged only is_high, is_gap or
\* is_small_delta keep their value; the rows are the same in number and
\* order, every flag column and quality_code are as they were, and the
\* table given to the function is not modified.
C27_SevereFlagsBlankValue ==
    /\ [](C27_SevereFlagsBlankValueState)
    /\ [][pc' = "aplicar_flags_a_nan" => df_limpio' = df_limpio]_vars

\* A value is blanked for an outlier while another row of the same table,
\* flagged is_gap only, keeps its value.
C27_Witness ==
    /\ pc = "aplicar_flags_a_nan"
    /\ \E i, j \in DOMAIN df_limpio :
          /\ df_limpio[i].is_outlier /\ notna(df_limpio[i].valor)
          /\ isna(df_limpio_nan[i].valor)
          /\ df_limpio[j].is_gap /\ ~SevereFlag(df_limpio[j])
          /\ notna(df_limpio[j].valor)
          /\ df_limpio_nan[j].valor = df_limpio[j].valor

\* A value is kept on a row flagged is_high only.
C27_WitnessHigh ==
    /\ pc = "aplicar_flags_a_nan"
    /\ \E j \in DOMAIN df_limpio :
          /\ df_limpio[j].is_high /\ ~SevereFlag(df_limpio[j])
          /\ notna(df_limpio[j].valor)
          /\ df_limpio_nan[j].valor = df_limpio[j].valor

\* Values are blanked for the three invalidity flags.
C27_WitnessInvalid ==
    /\ pc = "aplicar_flags_a_nan"
    /\ \E i \in DOMAIN df_limpio :
          /\ notna(df_limpio[i].valor) /\ isna(df_limpio_nan[i].valor)
          /\ \/ df_limpio[i].is_invalid_physical
             \/ df_limpio[i].is_invalid_category
             \/ df_limpio[i].is_invalid_monotonic

----------------------------------------------------------------------------
(* The missing flag and the value in the output of the detection cleaner   *)
(* of pipeline_v2 (limpiar_por_variable_deteccion).                        *)

\* C28: in the output of limpiar_por_variable_deteccion, is_missing is true
\* exactly for the rows whose valor is missing, and a row whose valor is
\* missing never has quality code 0.
C28_MissingFlagAgreesWithValue ==
    pc = "limpiar_por_variable_deteccion" =>
        \A i \in DOMAIN df_limpio :
            /\ df_limpio[i].is_missing <=> isna(df_limpio[i].valor)
            /\ isna(df_limpio[i].valor) => df_limpio[i].quality_code # 0

\* The half of C28 the code keeps: a missing valor never has code 0, and
\* is_missing implies that valor is missing.
C28_MissingValueHasCode ==
    pc = "limpiar_por_variable_deteccion" =>
        \A i \in DOMAIN df_limpio :
            /\ df_limpio[i].is_missing => isna(df_limpio[i].valor)
            /\ isna(df_limpio[i].valor) => df_limpio[i].quality_code # 0

\* What the code computes: valor is missing exactly where is_missing or
\* is_outlier is set.
C28_MissingOrOutlier ==
    pc = "limpiar_por_variable_deteccion" =>
        \A i \in DOMAIN df_limpio :
            isna(df_limpio[i].valor)
                <=> (df_limpio[i].is_missing \/ df_limpio[i].is_outlier)

----------------------------------------------------------------------------
(* The variable taxonomy of conf.py: the four group lists and METRICS_MAP. *)

\* The raw names that have a canonical name in METRICS_MAP.
MetricNames == {METRICS_MAP[n][1] : n \in DOMAIN METRICS_MAP}

KnownGroupVars ==
    VIBRATION_VARS \cup PHYSICAL_VARS \cup CATEGORICAL_VARS
        \cup ACCUMULATIVE_VARS

GroupListsDisjoint ==
    /\ VIBRATION_VARS \cap PHYSICAL_VARS = {}
    /\ VIBRATION_VARS \cap CATEGORICAL_VARS = {}
    /\ VIBRATION_VARS \cap ACCUMULATIVE_VARS = {}
    /\ PHYSICAL_VARS \cap CATEGORICAL_VARS = {}
    /\ PHYSICAL_VARS \cap ACCUMULATIVE_VARS = {}
    /\ CATEGORICAL_VARS \cap ACCUMULATIVE_VARS = {}

\* C29: the taxonomy is coherent.  The four group lists are pairwise
\* disjoint; every name that has a canonical name in METRICS_MAP is
\* classified into a known group, never unknown, so every row the cleaner
\* is given for such a name belongs to a known group; and every variable of
\* a known group has a canonical name in METRICS_MAP.
C29_TaxonomyCoherent ==
    /\ GroupListsDisjoint
    /\ \A v \in MetricNames : classify_variable_group(v) # "unknown"
    /\ \A v \in KnownGroupVars : map_METRICS_MAP(v) # nan_label
    /\ pc = "cleaning" =>
          \A i \in DOMAIN df :
              df[i].variable \in MetricNames
                  => classify_variable_group(df[i].variable) # "unknown"

\* What holds of the taxonomy: the lists are pairwise disjoint, and the two
\* spellings of the start counter are the only names out of line:
\* "Total Number of Starts" has a canonical name and no group,
\* "Total Number Of Starts" has a group and no canonical name.
C29_TaxonomyButStartCounter ==
    /\ GroupListsDisjoint
    /\ \A v \in MetricNames \ {"Total Number of Starts"} :
          classify_variable_group(v) # "unknown"
    /\ classify_variable_group("Total Number of Starts") = "unknown"
    /\ \A v \in KnownGroupVars \ {"Total Number Of Starts"} :
          map_METRICS_MAP(v) # nan_label
    /\ map_METRICS_MAP("Total Number Of Starts") = nan_label

----------------------------------------------------------------------------
(* The summary of limpiar_y_marcar_duplicados_ingestas against the rows it *)
(* was given and the rows it returned.                                     *)

\* C30: the deduplication summary accounts for every row.  After the first
\* run, the number of input rows is the number of output rows plus
\* num_exact_rows_dropped plus num_nan_dup_dropped, and
\* num_conflictive_rows is the number of output rows with is_duplicate_key.
C30_SummaryAccountsForRows ==
    pc = "limpiar_y_marcar_duplicados_ingestas" =>
        /\ Len(df) = Len(df_out) + resumen.num_exact_rows_dropped
                        + resumen.num_nan_dup_dropped
        /\ resumen.num_conflictive_rows =
              Cardinality({n \in DOMAIN df_out : df_out[n].is_duplicate_key})

\* What the summary satisfies: the two counters count the two masks, which
\* may both hold of a row, so their sum is at least the number of dropped
\* rows and exceeds it by the number of rows in both masks.
C30_SummaryCountsMasks ==
    pc = "limpiar_y_marcar_duplicados_ingestas" =>
        /\ Len(df) = Len(df_out) + resumen.num_exact_rows_dropped
                        + resumen.num_nan_dup_dropped
                        - Cardinality({i \in DOMAIN df :
                              mask_exact_dup(df, i) /\ mask_nan_dup(df, i)})
        /\ resumen.num_conflictive_rows =
              Cardinality({n \in DOMAIN df_out : df_out[n].is_duplicate_key})

====
